---- MODULE Spec2Model ----
(***************************************************************************)
(* A model of the Go AST tools of tutorials/go/debugging/ast:              *)
(*   refactoring_tool.go  - the four refactorings, their identifier        *)
(*                          classifiers and the command-line driver        *)
(*   custom_linter.go     - the lint rules and lintFile                    *)
(*                                                                         *)
(* Strings are sequences of one-character strings, so that strings.Split,  *)
(* strings.Trim and friends are computed and not assumed.                  *)
(***************************************************************************)
EXTENDS Integers, Sequences, FiniteSets, TLC

---------------------------------------------------------------------------
(* Bounds of the model *)

\* the longest file, in top-level nodes, that Init draws
MaxNodes == 2
\* the most import declarations of a linted file
MaxImports == 2
\* the most statements of a linted file
MaxStmts == 2
\* how often a file is linted
MaxRuns == 2
\* the most files in the directory the refactoring driver walks
MaxFiles == 2

\* the most field declarations of a struct the code generators are given
MaxFields == 3

\* the most declarations of an input file with several structs and methods
MaxDecls == 3

---------------------------------------------------------------------------
(* State *)

\* the refactoring engine: the tree, and the last two Apply calls
VARIABLES file, prev, last, changed, err, prev2, last2
\* the linter: the file linted, and what each lintFile call returned
VARIABLES lfile, runs

\* the refactoring driver: the command line, the flags after flag.Parse, the
\* refactorings built, the files on disk, main's position, the files found,
\* the index of the next one, the exit code (-1 while running), and what
\* happened to each file: parsed, tree mutated, written, failed
VARIABLES argv, flags, refactorings, disk, disk0, pc, filesToProcess, idx, exitCode,
          parsed, mutated, written, failed

\* the lint driver: the directory, the -recursive flag, main's position, the
\* files found, the index of the next one, the issues counted, the lines
\* printed, the exit code (-1 while running), whether filepath.Walk failed,
\* and what happened to each file: lintFile called on it, lintFile failed
VARIABLES ldir, recursive, lpc, filesToLint, lidx, issueCount, printed, lexit,
          walkFailed, linted, lintFailed

\* the code generators.  code_generator.go: the flags, the input file, main's
\* position, what ExtractStructs and GenerateCode returned, the exit code (-1
\* while running), the text delivered, and what the template engine, the
\* formatter and the file system answer.  code_generator.zig: the struct
\* type, and what generateTableDefinition evaluates to at compile time; the
\* struct types of a program that generates several tables, and its build
VARIABLES gflags, gsrc, gpc, structs, gcode, gerr, gexit, gout, genv, ztype, ztable,
          zbatch, zbuild

\* the analyzer of analysis_tool.go: the file of the pass, whether run has
\* returned, and the diagnostics reported
VARIABLES afile, apc, reports

rvars == <<file, prev, last, changed, err, prev2, last2>>
lvars == <<lfile, runs>>
mvars == <<argv, flags, refactorings, disk, disk0, pc, filesToProcess, idx, exitCode,
           parsed, mutated, written, failed>>
dvars == <<ldir, recursive, lpc, filesToLint, lidx, issueCount, printed, lexit,
           walkFailed, linted, lintFailed>>
gvars == <<gflags, gsrc, gpc, structs, gcode, gerr, gexit, gout, genv, ztype, ztable,
           zbatch, zbuild>>
avars == <<afile, apc, reports>>
xvars == <<dvars, gvars, avars>>
vars == <<rvars, lvars, mvars, xvars>>

NoOp == [op |-> "none"]

\* the refactoring engine has no tree
RefIdle ==
    /\ file = <<>>
    /\ prev = <<>>
    /\ last = NoOp
    /\ changed = FALSE
    /\ err = "nil"
    /\ prev2 = <<>>
    /\ last2 = NoOp

\* the linter has no file
LintIdle ==
    /\ lfile = <<>>
    /\ runs = <<>>

\* the lint driver is not run
DriverIdle ==
    /\ ldir = <<>>
    /\ recursive = FALSE
    /\ lpc = "idle"
    /\ filesToLint = <<>>
    /\ lidx = 0
    /\ issueCount = 0
    /\ printed = <<>>
    /\ lexit = -1
    /\ walkFailed = FALSE
    /\ linted = {}
    /\ lintFailed = {}

NoGenFlags == [input |-> FALSE, sqlite |-> FALSE, output |-> FALSE]

NoTable == [state |-> "none"]

\* code_generator.go is not run
GoGenIdle ==
    /\ gflags = NoGenFlags
    /\ gsrc = <<>>
    /\ gpc = "idle"
    /\ structs = <<>>
    /\ gcode = <<>>
    /\ gerr = "nil"
    /\ gexit = -1
    /\ gout = <<>>
    /\ genv = <<>>

\* code_generator.zig is not compiled
ZigGenIdle ==
    /\ ztype = <<>>
    /\ ztable = NoTable
    /\ zbatch = <<>>
    /\ zbuild = NoTable

\* the programs other than the refactoring tool and the linter are not run
\* the analyzer is not run
AnalysisIdle ==
    /\ afile = <<>>
    /\ apc = "idle"
    /\ reports = {}

OthersIdle == DriverIdle /\ GoGenIdle /\ ZigGenIdle /\ AnalysisIdle

NoFlags ==
    [renameFn |-> <<>>, renameType |-> <<>>, renameVar |-> <<>>, addParam |-> <<>>,
     write |-> FALSE]

\* the refactoring driver is not run
MainIdle ==
    /\ argv = NoFlags
    /\ flags = NoFlags
    /\ refactorings = <<>>
    /\ disk = <<>>
    /\ disk0 = <<>>
    /\ pc = "idle"
    /\ filesToProcess = <<>>
    /\ idx = 0
    /\ exitCode = -1
    /\ parsed = {}
    /\ mutated = {}
    /\ written = {}
    /\ failed = {}

---------------------------------------------------------------------------
(* Generic helpers *)

Range(s) == {s[i] : i \in 1..Len(s)}

SeqsUpTo(S, n) == UNION {[1..k -> S] : k \in 0..n}

RECURSIVE Concat(_)
Concat(ss) == IF ss = <<>> THEN <<>> ELSE Head(ss) \o Concat(Tail(ss))

Str1(c) == <<c>>

\* the bijections 1..|S| -> S: the orders in which a Go map may be ranged over
Orders(S) ==
    {o \in [1..Cardinality(S) -> S] : \A i, j \in 1..Cardinality(S) : o[i] = o[j] => i = j}

(* package strings *)

\* strings.HasSuffix
HasSuffix(s, suffix) ==
    Len(s) >= Len(suffix) /\ SubSeq(s, Len(s) - Len(suffix) + 1, Len(s)) = suffix

\* strings.HasPrefix
HasPrefix(s, prefix) ==
    Len(s) >= Len(prefix) /\ SubSeq(s, 1, Len(prefix)) = prefix

\* strings.Trim(s, cutset), cutset a set of characters
RECURSIVE TrimLeft(_, _)
TrimLeft(s, cutset) ==
    IF s # <<>> /\ Head(s) \in cutset THEN TrimLeft(Tail(s), cutset) ELSE s

RECURSIVE TrimRight(_, _)
TrimRight(s, cutset) ==
    IF s # <<>> /\ s[Len(s)] \in cutset
    THEN TrimRight(SubSeq(s, 1, Len(s) - 1), cutset) ELSE s

Trim(s, cutset) == TrimRight(TrimLeft(s, cutset), cutset)

\* strings.Split(s, sep), sep one character: always at least one part
RECURSIVE SplitFrom(_, _, _)
SplitFrom(s, sep, cur) ==
    IF s = <<>> THEN <<cur>>
    ELSE IF Head(s) = sep THEN <<cur>> \o SplitFrom(Tail(s), sep, <<>>)
    ELSE SplitFrom(Tail(s), sep, Append(cur, Head(s)))

Split(s, sep) == SplitFrom(s, sep, <<>>)

---------------------------------------------------------------------------
(* The syntax tree: what parser.ParseFile hands to the refactorings.        *)
(*                                                                         *)
(* An identifier is [Name, Obj]; Obj is the *ast.Object the parser's        *)
(* resolver attached (Kind "nil" stands for ident.Obj == nil).  Only        *)
(* Obj.Kind and Obj.Decl are read by the code, so the object is kept with   *)
(* the identifier.  Decl.type is the dynamic type of Obj.Decl; Decl.self    *)
(* tells whether the identifier the code compares against (parent.Name,     *)
(* parent.Fun, parent.Fun.Sel) is this very identifier; Decl.Fun is the     *)
(* dynamic type of a CallExpr's Fun.                                        *)

Names == {Str1("a"), Str1("b")}

MkDecl(t, self) == [type |-> t, self |-> self, Fun |-> "none"]

MkObj(k, t, self) == [Kind |-> k, Decl |-> MkDecl(t, self)]

NilObj == MkObj("nil", "none", FALSE)

Ident(n, o) == [type |-> "Ident", Name |-> n, Obj |-> o]

\* ast.NewIdent: a fresh identifier, no object
NewIdent(n) == Ident(n, NilObj)

\* The (Kind, Decl) pairs go/parser's resolver attaches:
\*   func f()            Fun / *ast.FuncDecl     (not for methods, not init)
\*   interface{ m() }    Fun / *ast.Field
\*   type T ...          Typ / *ast.TypeSpec
\*   func f[T any]()     Typ / *ast.Field        (type parameter)
\*   var v               Var / *ast.ValueSpec
\*   v := ...            Var / *ast.AssignStmt
\*   parameter, field    Var / *ast.Field
\*   const c             Con / *ast.ValueSpec
\*   label:              Lbl / *ast.LabeledStmt
\* and nil for what the file does not declare (imports, builtins, selectors,
\* method names).
ObjFunUse == MkObj("Fun", "FuncDecl", FALSE)
ObjFunDecl == MkObj("Fun", "FuncDecl", TRUE)
ObjIfaceMeth == MkObj("Fun", "Field", FALSE)
ObjTypeDecl == MkObj("Typ", "TypeSpec", TRUE)
ObjTypeUse == MkObj("Typ", "TypeSpec", FALSE)
ObjTypeParam == MkObj("Typ", "Field", FALSE)
ObjVarSpec == MkObj("Var", "ValueSpec", FALSE)
ObjVarAssign == MkObj("Var", "AssignStmt", FALSE)
ObjVarField == MkObj("Var", "Field", FALSE)
ObjConst == MkObj("Con", "ValueSpec", FALSE)
ObjLabel == MkObj("Lbl", "LabeledStmt", FALSE)

ParserObjs ==
    { NilObj, ObjFunUse, ObjIfaceMeth, ObjTypeDecl, ObjTypeUse, ObjTypeParam,
      ObjVarSpec, ObjVarAssign, ObjVarField, ObjConst, ObjLabel }

\* a parameter:  <name> int
Field(n) == [Names |-> <<Ident(n, ObjVarField)>>, Type |-> NewIdent(<<"i","n","t">>)]

\* func <name>(params) {}   or   func (T) <name>(params) {}
\* the resolver declares the name of a function, never the name of a method
FuncDecl(n, recv, params) ==
    [type |-> "FuncDecl", Recv |-> recv,
     Name |-> Ident(n, IF recv THEN NilObj ELSE ObjFunDecl),
     Params |-> params]

\* <callee>(args)
CallExpr(fun, args) == [type |-> "CallExpr", Fun |-> fun, Args |-> args]

IdentNodes == {Ident(n, o) : n \in Names, o \in ParserObjs}

FuncDeclNodes ==
    {FuncDecl(n, r, ps) : n \in Names, r \in BOOLEAN,
                          ps \in {<<>>, <<Field(Str1("a"))>>}}

CallExprNodes ==
    {CallExpr(Ident(n, o), <<Ident(Str1("a"), ObjVarSpec)>>) :
        n \in Names, o \in {NilObj, ObjFunUse}}

Nodes == IdentNodes \cup FuncDeclNodes \cup CallExprNodes

Files == SeqsUpTo(Nodes, MaxNodes) \ {<<>>}

\* every identifier of a node, in ast.Inspect's order
IdentsOfField(f) == f.Names \o <<f.Type>>

IdentsOfNode(n) ==
    CASE n.type = "Ident"    -> <<n>>
      [] n.type = "FuncDecl" ->
            <<n.Name>> \o Concat([i \in 1..Len(n.Params) |-> IdentsOfField(n.Params[i])])
      [] n.type = "CallExpr" -> <<n.Fun>> \o n.Args

IdentsOf(f) == Concat([i \in 1..Len(f) |-> IdentsOfNode(f[i])])

---------------------------------------------------------------------------
(* The identifier classifiers *)

\* a bug: every resolved identifier counts as a function
isFunctionIdentAnyObject(ident) == ident.Obj.Kind # "nil"

isFunctionIdent(ident) ==
    IF ident.Obj.Kind = "nil" THEN FALSE
    ELSE IF ident.Obj.Kind = "Fun" THEN TRUE
    ELSE CASE ident.Obj.Decl.type = "FuncDecl" -> ident.Obj.Decl.self
           [] ident.Obj.Decl.type = "CallExpr" ->
                 IF ident.Obj.Decl.Fun \in {"Ident", "SelectorExpr"}
                 THEN ident.Obj.Decl.self ELSE FALSE
           [] OTHER -> FALSE

isTypeIdent(ident) ==
    IF ident.Obj.Kind = "nil" THEN FALSE
    ELSE IF ident.Obj.Kind = "Typ" THEN TRUE
    ELSE CASE ident.Obj.Decl.type = "TypeSpec" -> ident.Obj.Decl.self
           [] OTHER -> FALSE

isVarIdent(ident) ==
    IF ident.Obj.Kind = "nil" THEN FALSE
    ELSE IF ident.Obj.Kind = "Var" THEN TRUE
    ELSE ident.Obj.Decl.type \in {"AssignStmt", "ValueSpec", "Field"}

---------------------------------------------------------------------------
(* The refactorings.  Apply returns [file, changed, err].                   *)

RenameFunction(old, new) == [op |-> "RenameFunction", OldName |-> old, NewName |-> new]

RenameType(old, new) == [op |-> "RenameType", OldName |-> old, NewName |-> new]

RenameVariable(old, new) == [op |-> "RenameVariable", OldName |-> old, NewName |-> new]

AddParameter(f, p, t) ==
    [op |-> "AddParameter", FunctionName |-> f, ParamName |-> p, ParamType |-> t]

RenameFunctionMatch(r, ident) == ident.Name = r.OldName /\ isFunctionIdent(ident)

RenameTypeMatch(r, ident) == ident.Name = r.OldName /\ isTypeIdent(ident)

RenameVariableMatch(r, ident) == ident.Name = r.OldName /\ isVarIdent(ident)

\* the visitor of a rename's ast.Inspect at one identifier
RenameMatch(r, ident) ==
    CASE r.op = "RenameFunction" -> RenameFunctionMatch(r, ident)
      [] r.op = "RenameType"     -> RenameTypeMatch(r, ident)
      [] r.op = "RenameVariable" -> RenameVariableMatch(r, ident)

RenameIdent(r, ident) ==
    IF RenameMatch(r, ident) THEN [ident EXCEPT !.Name = r.NewName] ELSE ident

\* the walk: the visitor at every identifier under a node
RenameField(r, f) ==
    [Names |-> [i \in 1..Len(f.Names) |-> RenameIdent(r, f.Names[i])],
     Type |-> RenameIdent(r, f.Type)]

RenameNode(r, n) ==
    CASE n.type = "Ident"    -> RenameIdent(r, n)
      [] n.type = "FuncDecl" ->
            [n EXCEPT !.Name = RenameIdent(r, n.Name),
                      !.Params = [i \in 1..Len(n.Params) |-> RenameField(r, n.Params[i])]]
      [] n.type = "CallExpr" ->
            [n EXCEPT !.Fun = RenameIdent(r, n.Fun),
                      !.Args = [i \in 1..Len(n.Args) |-> RenameIdent(r, n.Args[i])]]

RenameIdents(r, f) == [i \in 1..Len(f) |-> RenameNode(r, f[i])]

RenameFunctionApply(r, f) ==
    [file |-> RenameIdents(r, f),
     changed |-> \E i \in 1..Len(IdentsOf(f)) : RenameFunctionMatch(r, IdentsOf(f)[i]),
     err |-> "nil"]

RenameTypeApply(r, f) ==
    [file |-> RenameIdents(r, f),
     changed |-> \E i \in 1..Len(IdentsOf(f)) : RenameTypeMatch(r, IdentsOf(f)[i]),
     err |-> "nil"]

RenameVariableApply(r, f) ==
    [file |-> RenameIdents(r, f),
     changed |-> \E i \in 1..Len(IdentsOf(f)) : RenameVariableMatch(r, IdentsOf(f)[i]),
     err |-> "nil"]

AddParameterMatch(r, n) == n.type = "FuncDecl" /\ n.Name.Name = r.FunctionName

\* a bug: the calls of the function get the new argument too
AddParameterApplyWithCalls(r, f) ==
    LET newParam == [Names |-> <<NewIdent(r.ParamName)>>, Type |-> NewIdent(r.ParamType)]
        visit(n) ==
            IF AddParameterMatch(r, n)
            THEN [n EXCEPT !.Params = Append(n.Params, newParam)]
            ELSE IF n.type = "CallExpr" /\ n.Fun.Name = r.FunctionName
            THEN [n EXCEPT !.Args = Append(n.Args, NewIdent(r.ParamName))]
            ELSE n
    IN [file |-> [i \in 1..Len(f) |-> visit(f[i])],
        changed |-> \E i \in 1..Len(f) : AddParameterMatch(r, f[i]),
        err |-> "nil"]

\* a bug: the new parameter is put first
AddParameterApplyPrepend(r, f) ==
    LET newParam == [Names |-> <<NewIdent(r.ParamName)>>, Type |-> NewIdent(r.ParamType)]
        visit(n) == IF AddParameterMatch(r, n)
                    THEN [n EXCEPT !.Params = <<newParam>> \o n.Params] ELSE n
    IN [file |-> [i \in 1..Len(f) |-> visit(f[i])],
        changed |-> \E i \in 1..Len(f) : AddParameterMatch(r, f[i]),
        err |-> "nil"]

AddParameterApply(r, f) ==
    LET newParam == [Names |-> <<NewIdent(r.ParamName)>>, Type |-> NewIdent(r.ParamType)]
        visit(n) == IF AddParameterMatch(r, n)
                    THEN [n EXCEPT !.Params = Append(n.Params, newParam)] ELSE n
    IN [file |-> [i \in 1..Len(f) |-> visit(f[i])],
        changed |-> \E i \in 1..Len(f) : AddParameterMatch(r, f[i]),
        err |-> "nil"]

Apply(r, f) ==
    CASE r.op = "RenameFunction" -> RenameFunctionApply(r, f)
      [] r.op = "RenameType"     -> RenameTypeApply(r, f)
      [] r.op = "RenameVariable" -> RenameVariableApply(r, f)
      [] r.op = "AddParameter"   -> AddParameterApply(r, f)

-------------------------------------------------------------------------------------------------------------------------------------------------
(* The refactoring engine as a state machine: a file as parsed, and a       *)
(* refactoring applied to it.  prev/last/changed/err record the last Apply  *)
(* (the tree before it, the refactoring, what it returned); prev2/last2 the *)
(* Apply before that one.                                                   *)
(*   Spec           one Apply of any of the four refactorings               *)
(*   RoundTripSpec  RenameFunction{a, b}, then RenameFunction{b, a}         *)


ParamY == Str1("y")
ParamT == Str1("T")

RefInit ==
    /\ file \in Files
    /\ prev = <<>>
    /\ last = NoOp
    /\ changed = FALSE
    /\ err = "nil"
    /\ prev2 = <<>>
    /\ last2 = NoOp
    /\ LintIdle
    /\ MainIdle
    /\ OthersIdle

Step(r) ==
    LET res == Apply(r, file)
    IN /\ file' = res.file
       /\ changed' = res.changed
       /\ err' = res.err
       /\ prev' = file
       /\ last' = r
       /\ prev2' = prev
       /\ last2' = last
       /\ UNCHANGED <<lvars, mvars, xvars>>

ApplyRenameFunction ==
    /\ last = NoOp
    /\ \E old \in Names, new \in Names : Step(RenameFunction(old, new))

ApplyRenameType ==
    /\ last = NoOp
    /\ \E old \in Names, new \in Names : Step(RenameType(old, new))

ApplyRenameVariable ==
    /\ last = NoOp
    /\ \E old \in Names, new \in Names : Step(RenameVariable(old, new))

ApplyAddParameter ==
    /\ last = NoOp
    /\ \E f \in Names : Step(AddParameter(f, ParamY, ParamT))

RefNext ==
    \/ ApplyRenameFunction
    \/ ApplyRenameType
    \/ ApplyRenameVariable
    \/ ApplyAddParameter

Spec == RefInit /\ [][RefNext]_vars

\* rename-function(a, b) ...
RoundTripThere ==
    /\ last = NoOp
    /\ \E a \in Names, b \in Names : Step(RenameFunction(a, b))

\* ... then rename-function(b, a)
RoundTripBack ==
    /\ last.op = "RenameFunction"
    /\ last2 = NoOp
    /\ Step(RenameFunction(last.NewName, last.OldName))

RoundTripNext == RoundTripThere \/ RoundTripBack

RoundTripSpec == RefInit /\ [][RoundTripNext]_vars

\* the refactoring just applied, applied once more to the tree it gave
ApplyAgain ==
    /\ last # NoOp
    /\ last2 = NoOp
    /\ Step(last)

ApplyTwiceNext == RefNext \/ ApplyAgain

ApplyTwiceSpec == RefInit /\ [][ApplyTwiceNext]_vars

---------------------------------------------------------------------------
(* refactoring_tool.go: applyRefactorings and main.                         *)
(*                                                                         *)
(* A file on disk is [parses, tree]: whether parser.ParseFile accepts it,   *)
(* and the tree it parses to; what format.Node prints is kept as the tree   *)
(* it was printed from.                                                     *)

\* the values of -rename-fn, -rename-type and -rename-var
RenameFlagValues ==
    { <<>>,                                \* not given
      <<"a", ":", "b">>,                   \* a:b
      <<"a">>,                             \* a
      <<"a", ":", "b", ":", "a">>,         \* a:b:a
      <<"a", ":">>,                        \* a:
      <<":", "b">>,                        \* :b
      <<":">> }                            \* :

\* the values of -add-param
AddParamFlagValues ==
    { <<>>,                                \* not given
      <<"a", ":", "y", ":", "T">>,         \* a:y:T
      <<"a", ":", "y">>,                   \* a:y
      <<"a", ":", "y", ":", "T", ":", "b">> } \* a:y:T:b

Unparsable == [parses |-> FALSE, tree |-> <<>>]

Parsable(t) == [parses |-> TRUE, tree |-> t]

DiskFiles ==
    { Unparsable,
      \* func a() {} ; a(a)
      Parsable(<<FuncDecl(Str1("a"), FALSE, <<>>),
                 CallExpr(Ident(Str1("a"), ObjFunUse), <<Ident(Str1("a"), ObjVarSpec)>>)>>),
      \* type a ... ; var b
      Parsable(<<Ident(Str1("a"), ObjTypeDecl), Ident(Str1("b"), ObjVarSpec)>>) }

Disks == SeqsUpTo(DiskFiles, MaxFiles) \ {<<>>}

\* the loop of applyRefactorings: every refactoring applied in turn
RECURSIVE ApplyAll(_, _)
ApplyAll(rs, t) ==
    IF rs = <<>> THEN [file |-> t, changed |-> FALSE]
    ELSE LET first == Apply(Head(rs), t)
             rest  == ApplyAll(Tail(rs), first.file)
         IN [file |-> rest.file, changed |-> first.changed \/ rest.changed]

MainInit ==
    /\ argv \in [renameFn : RenameFlagValues, renameType : RenameFlagValues,
                 renameVar : RenameFlagValues, addParam : AddParamFlagValues,
                 write : BOOLEAN]
    /\ flags = NoFlags
    /\ refactorings = <<>>
    /\ disk \in Disks
    /\ disk0 = disk
    /\ pc = "start"
    /\ filesToProcess = <<>>
    /\ idx = 0
    /\ exitCode = -1
    /\ parsed = {}
    /\ mutated = {}
    /\ written = {}
    /\ failed = {}
    /\ RefIdle
    /\ LintIdle
    /\ OthersIdle

Untouched == UNCHANGED <<disk, disk0, parsed, mutated, written, failed, rvars, lvars, xvars>>

\* os.Exit(code)
Exit(code) == pc' = "exit" /\ exitCode' = code

\* flag.Parse()
FlagParse ==
    /\ pc = "start"
    /\ flags' = argv
    /\ pc' = "renameFn"
    /\ UNCHANGED <<argv, refactorings, filesToProcess, idx, exitCode>>
    /\ Untouched

\* if *renameFn != "" { ... }
ValidateRenameFn ==
    /\ pc = "renameFn"
    /\ LET parts == Split(flags.renameFn, ":")
       IN IF flags.renameFn = <<>>
          THEN pc' = "renameType" /\ UNCHANGED <<refactorings, exitCode>>
          ELSE IF Len(parts) # 2
          THEN Exit(1) /\ UNCHANGED refactorings
          ELSE /\ refactorings' = Append(refactorings, RenameFunction(parts[1], parts[2]))
               /\ pc' = "renameType"
               /\ UNCHANGED exitCode
    /\ UNCHANGED <<argv, flags, filesToProcess, idx>>
    /\ Untouched

\* if *renameType != "" { ... }
ValidateRenameType ==
    /\ pc = "renameType"
    /\ LET parts == Split(flags.renameType, ":")
       IN IF flags.renameType = <<>>
          THEN pc' = "renameVar" /\ UNCHANGED <<refactorings, exitCode>>
          ELSE IF Len(parts) # 2
          THEN Exit(1) /\ UNCHANGED refactorings
          ELSE /\ refactorings' = Append(refactorings, RenameType(parts[1], parts[2]))
               /\ pc' = "renameVar"
               /\ UNCHANGED exitCode
    /\ UNCHANGED <<argv, flags, filesToProcess, idx>>
    /\ Untouched

\* if *renameVar != "" { ... }
ValidateRenameVar ==
    /\ pc = "renameVar"
    /\ LET parts == Split(flags.renameVar, ":")
       IN IF flags.renameVar = <<>>
          THEN pc' = "addParam" /\ UNCHANGED <<refactorings, exitCode>>
          ELSE IF Len(parts) # 2
          THEN Exit(1) /\ UNCHANGED refactorings
          ELSE /\ refactorings' = Append(refactorings, RenameVariable(parts[1], parts[2]))
               /\ pc' = "addParam"
               /\ UNCHANGED exitCode
    /\ UNCHANGED <<argv, flags, filesToProcess, idx>>
    /\ Untouched

\* a bug: a malformed -add-param is dropped and the run goes on
ValidateAddParamLenient ==
    /\ pc = "addParam"
    /\ LET parts == Split(flags.addParam, ":")
       IN IF flags.addParam = <<>> \/ Len(parts) # 3
          THEN pc' = "check" /\ UNCHANGED <<refactorings, exitCode>>
          ELSE /\ refactorings' =
                     Append(refactorings, AddParameter(parts[1], parts[2], parts[3]))
               /\ pc' = "check"
               /\ UNCHANGED exitCode
    /\ UNCHANGED <<argv, flags, filesToProcess, idx>>
    /\ Untouched

\* if *addParam != "" { ... }
ValidateAddParam ==
    /\ pc = "addParam"
    /\ LET parts == Split(flags.addParam, ":")
       IN IF flags.addParam = <<>>
          THEN pc' = "check" /\ UNCHANGED <<refactorings, exitCode>>
          ELSE IF Len(parts) # 3
          THEN Exit(1) /\ UNCHANGED refactorings
          ELSE /\ refactorings' =
                     Append(refactorings, AddParameter(parts[1], parts[2], parts[3]))
               /\ pc' = "check"
               /\ UNCHANGED exitCode
    /\ UNCHANGED <<argv, flags, filesToProcess, idx>>
    /\ Untouched

\* if len(refactorings) == 0 { ... os.Exit(1) }
CheckAny ==
    /\ pc = "check"
    /\ IF Len(refactorings) = 0
       THEN Exit(1)
       ELSE pc' = "walk" /\ UNCHANGED exitCode
    /\ UNCHANGED <<argv, flags, refactorings, filesToProcess, idx>>
    /\ Untouched

\* filepath.Walk: every .go file of the directory, or an error and exit 1
Walk ==
    /\ pc = "walk"
    /\ \/ /\ filesToProcess' = [i \in 1..Len(disk) |-> i]
          /\ idx' = 1
          /\ pc' = "files"
          /\ UNCHANGED exitCode
       \/ /\ Exit(1)
          /\ UNCHANGED <<filesToProcess, idx>>
    /\ UNCHANGED <<argv, flags, refactorings>>
    /\ Untouched

\* a bug: the changes are written whenever a refactoring changed the tree,
\* the -write flag set or not
ProcessFileIgnoringWrite ==
    /\ pc = "files"
    /\ idx <= Len(filesToProcess)
    /\ LET i   == filesToProcess[idx]
           res == ApplyAll(refactorings, disk[i].tree)
       IN /\ parsed' = parsed \cup {i}
          /\ IF ~disk[i].parses
             THEN /\ failed' = failed \cup {i}
                  /\ UNCHANGED <<disk, mutated, written>>
             ELSE /\ mutated' = IF res.file # disk[i].tree THEN mutated \cup {i} ELSE mutated
                  /\ IF res.changed
                     THEN \/ /\ failed' = failed \cup {i}
                             /\ UNCHANGED <<disk, written>>
                          \/ /\ disk' = [disk EXCEPT ![i].tree = res.file]
                             /\ written' = written \cup {i}
                             /\ UNCHANGED failed
                     ELSE UNCHANGED <<disk, written, failed>>
    /\ idx' = idx + 1
    /\ UNCHANGED <<argv, flags, refactorings, disk0, pc, filesToProcess, exitCode,
                   rvars, lvars, xvars>>

\* a bug: the run stops at the first file that fails to parse
ProcessFileAborting ==
    /\ pc = "files"
    /\ idx <= Len(filesToProcess)
    /\ LET i   == filesToProcess[idx]
           res == ApplyAll(refactorings, disk[i].tree)
       IN /\ parsed' = parsed \cup {i}
          /\ IF ~disk[i].parses
             THEN /\ failed' = failed \cup {i}
                  /\ Exit(1)
                  /\ UNCHANGED <<disk, mutated, written>>
             ELSE /\ mutated' = IF res.file # disk[i].tree THEN mutated \cup {i} ELSE mutated
                  /\ UNCHANGED <<pc, exitCode>>
                  /\ IF res.changed /\ flags.write
                     THEN \/ /\ failed' = failed \cup {i}
                             /\ UNCHANGED <<disk, written>>
                          \/ /\ disk' = [disk EXCEPT ![i].tree = res.file]
                             /\ written' = written \cup {i}
                             /\ UNCHANGED failed
                     ELSE UNCHANGED <<disk, written, failed>>
    /\ idx' = idx + 1
    /\ UNCHANGED <<argv, flags, refactorings, disk0, filesToProcess, rvars, lvars, xvars>>

\* one turn of the loop over filesToProcess: applyRefactorings(filename, ...)
\* and the error it returns printed
ProcessFile ==
    /\ pc = "files"
    /\ idx <= Len(filesToProcess)
    /\ LET i   == filesToProcess[idx]
           res == ApplyAll(refactorings, disk[i].tree)
       IN /\ parsed' = parsed \cup {i}
          /\ IF ~disk[i].parses
             THEN \* failed to parse file
                  /\ failed' = failed \cup {i}
                  /\ UNCHANGED <<disk, mutated, written>>
             ELSE /\ mutated' = IF res.file # disk[i].tree THEN mutated \cup {i} ELSE mutated
                  /\ IF res.changed /\ flags.write
                     THEN \/ \* format.Node fails
                             /\ failed' = failed \cup {i}
                             /\ UNCHANGED <<disk, written>>
                          \/ \* os.WriteFile fails
                             /\ failed' = failed \cup {i}
                             /\ UNCHANGED <<disk, written>>
                          \/ \* the changes are written
                             /\ disk' = [disk EXCEPT ![i].tree = res.file]
                             /\ written' = written \cup {i}
                             /\ UNCHANGED failed
                     ELSE UNCHANGED <<disk, written, failed>>
    /\ idx' = idx + 1
    /\ UNCHANGED <<argv, flags, refactorings, disk0, pc, filesToProcess, exitCode,
                   rvars, lvars, xvars>>

\* main returns
MainReturn ==
    /\ pc = "files"
    /\ idx > Len(filesToProcess)
    /\ Exit(0)
    /\ UNCHANGED <<argv, flags, refactorings, filesToProcess, idx>>
    /\ Untouched

MainNext ==
    \/ FlagParse
    \/ ValidateRenameFn
    \/ ValidateRenameType
    \/ ValidateRenameVar
    \/ ValidateAddParam
    \/ CheckAny
    \/ Walk
    \/ ProcessFile
    \/ MainReturn

MainSpec == MainInit /\ [][MainNext]_vars

---------------------------------------------------------------------------
(* custom_linter.go: the file the lint rules walk.                          *)
(*                                                                         *)
(* A linted file is [Name, Imports, Body]: the identifier of the package    *)
(* clause, the import declarations and the statements.  ast.Inspect visits  *)
(* file.Name, then every declaration: each ImportSpec with its Name (when   *)
(* it has one) and Path, then the statements with everything under them.    *)
(* A position is [Line, Column]: import i is on line i, statement j on line *)
(* Len(Imports) + j; Column counts the tokens of the line.                  *)

Q == "\""

Quoted(s) == <<Q>> \o s \o <<Q>>

NoName == <<"<nil>">>

ImportSpec(name, path) == [Name |-> name, Path |-> [Value |-> Quoted(path)]]

LIdent(n) == [type |-> "Ident", Name |-> n]
BasicLit == [type |-> "BasicLit"]
SelectorExpr(x, sel) == [type |-> "SelectorExpr", X |-> x, Sel |-> LIdent(sel)]
LCall(fun, args) == [type |-> "CallExpr", Fun |-> fun, Args |-> args]
ExprStmt(x) == [type |-> "ExprStmt", X |-> x]
AssignStmt(lhs, rhs) == [type |-> "AssignStmt", Lhs |-> lhs, Rhs |-> rhs]
IndexExpr(x, index) == [type |-> "IndexExpr", X |-> x, Index |-> index]

ImportSpecs ==
    { ImportSpec(NoName, <<"a">>),              \* import "a"
      ImportSpec(NoName, <<"x", "/", "b">>),    \* import "x/b"
      ImportSpec(<<"a">>, <<"x", "/", "c">>),   \* import a "x/c"
      ImportSpec(<<"b">>, <<"x", "/", "c">>),   \* import b "x/c"
      ImportSpec(<<"_">>, <<"x", "/", "c">>),   \* import _ "x/c"
      ImportSpec(<<".">>, <<"x", "/", "c">>) }  \* import . "x/c"

Stmts ==
    { \* a.New()
      ExprStmt(LCall(SelectorExpr(LIdent(<<"a">>), <<"N", "e", "w">>), <<>>)),
      \* New(b)
      ExprStmt(LCall(LIdent(<<"N", "e", "w">>), <<LIdent(<<"b">>)>>)),
      \* x, _ = b.Open()
      AssignStmt(<<LIdent(<<"x">>), LIdent(<<"_">>)>>,
                 <<LCall(SelectorExpr(LIdent(<<"b">>), <<"O", "p", "e", "n">>), <<>>)>>),
      \* x = a
      AssignStmt(<<LIdent(<<"x">>)>>, <<LIdent(<<"a">>)>>),
      \* x.a()
      ExprStmt(LCall(SelectorExpr(LIdent(<<"x">>), <<"a">>), <<>>)) }

PackageNames == {<<"m">>, <<"a">>}

LintFiles ==
    {[Name |-> LIdent(n), Imports |-> is, Body |-> b] :
        n \in PackageNames, is \in SeqsUpTo(ImportSpecs, MaxImports),
        b \in SeqsUpTo(Stmts, MaxStmts)}

\* the names of the identifiers ast.Inspect visits under an expression
RECURSIVE ExprIdents(_)
ExprIdents(e) ==
    CASE e.type = "Ident"        -> {e.Name}
      [] e.type = "SelectorExpr" -> ExprIdents(e.X) \cup {e.Sel.Name}
      [] e.type = "CallExpr"     ->
            ExprIdents(e.Fun) \cup UNION {ExprIdents(e.Args[i]) : i \in 1..Len(e.Args)}
      [] e.type = "IndexExpr"    -> ExprIdents(e.X) \cup ExprIdents(e.Index)
      [] OTHER -> {}

StmtIdents(st) ==
    CASE st.type = "ExprStmt"   -> ExprIdents(st.X)
      [] st.type = "AssignStmt" ->
            UNION {ExprIdents(st.Lhs[i]) : i \in 1..Len(st.Lhs)}
            \cup UNION {ExprIdents(st.Rhs[i]) : i \in 1..Len(st.Rhs)}

\* the identifiers of the body: what is outside the import declarations and
\* the package clause
BodyIdents(f) == UNION {StmtIdents(f.Body[i]) : i \in 1..Len(f.Body)}

\* every identifier ast.Inspect(file, ...) visits
InspectIdents(f) ==
    {f.Name.Name}
    \cup {f.Imports[i].Name : i \in {j \in 1..Len(f.Imports) : f.Imports[j].Name # NoName}}
    \cup BodyIdents(f)

ImportPos(f, i) == [Line |-> i, Column |-> 1]
StmtPos(f, j, col) == [Line |-> Len(f.Imports) + j, Column |-> col]

Issue(pos, msg) == [Pos |-> pos, Message |-> msg, Severity |-> "warning"]

---------------------------------------------------------------------------
(* UnusedImportRule *)

\* the name the rule files an import under; NoName when the import is skipped
ImportKey(imp) ==
    IF imp.Name # NoName
    THEN IF imp.Name \in {<<"_">>, <<".">>} THEN NoName ELSE imp.Name
    ELSE LET path  == Trim(imp.Path.Value, {Q})
             parts == Split(path, "/")
         IN parts[Len(parts)]

\* imports := map name -> position, a later import of a name replacing an
\* earlier one
RECURSIVE ImportsMap(_, _)
ImportsMap(f, n) ==
    IF n = 0 THEN [k \in {} |-> 0]
    ELSE LET m == ImportsMap(f, n - 1)
             k == ImportKey(f.Imports[n])
         IN IF k = NoName THEN m
            ELSE [x \in DOMAIN m \cup {k} |-> IF x = k THEN ImportPos(f, n) ELSE m[x]]

\* a bug: the walk deletes nothing
RemainingImportsNoWalk(f) == ImportsMap(f, Len(f.Imports))

\* the map after the walk: every visited identifier's name is deleted
RemainingImports(f) ==
    LET m == ImportsMap(f, Len(f.Imports))
    IN [k \in DOMAIN m \ InspectIdents(f) |-> m[k]]

\* fmt.Sprintf(format, args...) with every verb %s: the format and its arguments
Sprintf(format, args) == [format |-> format, args |-> args]

UnusedMessage(name) == Sprintf("Unused import: %s", <<name>>)

\* Check ranges over the map: the results it may return, one per order
UnusedImportRuleCheck(f) ==
    LET m == RemainingImports(f)
    IN {[i \in 1..Cardinality(DOMAIN m) |-> Issue(m[o[i]], UnusedMessage(o[i]))] :
            o \in Orders(DOMAIN m)}

---------------------------------------------------------------------------
(* ErrorReturnRule *)

getFunctionName(call) ==
    CASE call.Fun.type = "Ident" -> [name |-> call.Fun.Name, ok |-> TRUE]
      [] call.Fun.type = "SelectorExpr" ->
            IF call.Fun.X.type = "Ident"
            THEN [name |-> call.Fun.X.Name \o <<".">> \o call.Fun.Sel.Name, ok |-> TRUE]
            ELSE [name |-> call.Fun.Sel.Name, ok |-> TRUE]
      [] OTHER -> [name |-> <<>>, ok |-> FALSE]

ErrorPrefixes ==
    { <<"C","r","e","a","t","e">>, <<"N","e","w">>, <<"O","p","e","n">>,
      <<"R","e","a","d">>, <<"W","r","i","t","e">> }

IgnoredMessage == Sprintf("Error is explicitly ignored with _", <<>>)

ResultMessage(funcName) ==
    Sprintf("Result of %s is ignored, but it might return an error", <<funcName>>)

\* a bug: the right-hand side need not be a call
AssignRhsIssuesAnyRhs(f, j, st, rhs) ==
    IF Len(st.Lhs) > 1 /\ Len(st.Rhs) = 1
       /\ st.Lhs[Len(st.Lhs)].type = "Ident"
       /\ st.Lhs[Len(st.Lhs)].Name = <<"_">>
    THEN <<Issue(StmtPos(f, j, Len(st.Lhs)), IgnoredMessage)>>
    ELSE <<>>

\* the issues of one right-hand side of an assignment
AssignRhsIssues(f, j, st, rhs) ==
    IF rhs.type = "CallExpr" /\ Len(st.Lhs) > 1 /\ Len(st.Rhs) = 1
       /\ Len(st.Lhs) >= 2
       /\ st.Lhs[Len(st.Lhs)].type = "Ident"
       /\ st.Lhs[Len(st.Lhs)].Name = <<"_">>
    THEN <<Issue(StmtPos(f, j, Len(st.Lhs)), IgnoredMessage)>>
    ELSE <<>>

StmtIssues(f, j) ==
    LET st == f.Body[j]
    IN CASE st.type = "AssignStmt" ->
              Concat([i \in 1..Len(st.Rhs) |-> AssignRhsIssues(f, j, st, st.Rhs[i])])
         [] st.type = "ExprStmt" ->
              IF st.X.type = "CallExpr" /\ getFunctionName(st.X).ok
                 /\ \E p \in ErrorPrefixes : HasPrefix(getFunctionName(st.X).name, p)
              THEN <<Issue(StmtPos(f, j, 1), ResultMessage(getFunctionName(st.X).name))>>
              ELSE <<>>

ErrorReturnRuleCheck(f) == Concat([j \in 1..Len(f.Body) |-> StmtIssues(f, j)])

---------------------------------------------------------------------------
(* lintFile with main's rules, UnusedImportRule then ErrorReturnRule: the   *)
(* results it may return                                                    *)

\* [issues: what lintFile returns; unused, errors: what each rule returned]
lintFile(f) ==
    {[issues |-> u \o ErrorReturnRuleCheck(f), unused |-> u,
      errors |-> ErrorReturnRuleCheck(f)] : u \in UnusedImportRuleCheck(f)}

(* The linter as a state machine: a file on disk, linted once and again.    *)
(* runs holds what each lintFile call returned.                             *)

LintInit ==
    /\ lfile \in LintFiles
    /\ runs = <<>>
    /\ RefIdle
    /\ MainIdle
    /\ OthersIdle

\* lint the unmodified file once more
LintFile ==
    /\ Len(runs) < MaxRuns
    /\ \E res \in lintFile(lfile) : runs' = Append(runs, res)
    /\ UNCHANGED <<lfile, rvars, mvars, xvars>>

LintNext == LintFile

LintSpec == LintInit /\ [][LintNext]_vars

---------------------------------------------------------------------------
(* lintFile(filename, rules) over any list of rules.  A rule is named by    *)
(* its Name(); a result is [rules, issues, results]: the list given, what   *)
(* lintFile returns, and what each rule.Check returned, in the list's order *)

RuleNames == {"unused-import", "error-check"}

\* rule.Check(fset, file): the results it may return
RuleCheck(rule, f) ==
    IF rule = "unused-import" THEN UnusedImportRuleCheck(f) ELSE {ErrorReturnRuleCheck(f)}

\* a bug: the loop ends at the first rule that finds something
lintFileUntilFound(f, rules) ==
    LET all     == UNION {RuleCheck(rules[k], f) : k \in 1..Len(rules)}
        choices == {c \in [1..Len(rules) -> all] :
                       \A k \in 1..Len(rules) : c[k] \in RuleCheck(rules[k], f)}
        upTo(c) == IF \E k \in 1..Len(c) : c[k] # <<>>
                   THEN SubSeq(c, 1, CHOOSE k \in 1..Len(c) :
                                        c[k] # <<>> /\ \A j \in 1..(k - 1) : c[j] = <<>>)
                   ELSE c
    IN {[rules |-> rules, issues |-> Concat(upTo(c)), results |-> upTo(c)] : c \in choices}

lintFileRules(f, rules) ==
    LET all     == UNION {RuleCheck(rules[k], f) : k \in 1..Len(rules)}
        choices == {c \in [1..Len(rules) -> all] :
                       \A k \in 1..Len(rules) : c[k] \in RuleCheck(rules[k], f)}
    IN {[rules |-> rules, issues |-> Concat(c), results |-> c] : c \in choices}

PermStmts ==
    { ExprStmt(LCall(LIdent(<<"N", "e", "w">>), <<LIdent(<<"b">>)>>)),   \* New(b)
      AssignStmt(<<LIdent(<<"x">>), LIdent(<<"_">>)>>,                   \* x, _ = a()
                 <<LCall(LIdent(<<"a">>), <<>>)>>) }

PermFiles ==
    {[Name |-> LIdent(<<"m">>), Imports |-> is, Body |-> b] :
        is \in SeqsUpTo(ImportSpecs, MaxImports), b \in SeqsUpTo(PermStmts, MaxStmts)}

PermInit ==
    /\ lfile \in PermFiles
    /\ runs = <<>>
    /\ RefIdle
    /\ MainIdle
    /\ OthersIdle

\* lint the file with the rules in some order
LintFileRules ==
    /\ Len(runs) < MaxRuns
    /\ \E rules \in Orders(RuleNames) : \E res \in lintFileRules(lfile, rules) :
          runs' = Append(runs, res)
    /\ UNCHANGED <<lfile, rvars, mvars, xvars>>

PermNext == LintFileRules

PermSpec == PermInit /\ [][PermNext]_vars

---------------------------------------------------------------------------
(* ErrorReturnRule over the statements it tells apart *)

New == <<"N", "e", "w">>
Open == <<"O", "p", "e", "n">>
Discard == LIdent(<<"_">>)

ErrStmts ==
    { \* x, _ = b.Open()
      AssignStmt(<<LIdent(<<"x">>), Discard>>,
                 <<LCall(SelectorExpr(LIdent(<<"b">>), Open), <<>>)>>),
      \* x, y, _ = a()
      AssignStmt(<<LIdent(<<"x">>), LIdent(<<"y">>), Discard>>,
                 <<LCall(LIdent(<<"a">>), <<>>)>>),
      \* x, _ = m[b]
      AssignStmt(<<LIdent(<<"x">>), Discard>>,
                 <<IndexExpr(LIdent(<<"m">>), LIdent(<<"b">>))>>),
      \* x, _ = a(), b()
      AssignStmt(<<LIdent(<<"x">>), Discard>>,
                 <<LCall(LIdent(<<"a">>), <<>>), LCall(LIdent(<<"b">>), <<>>)>>),
      \* _, x = a()
      AssignStmt(<<Discard, LIdent(<<"x">>)>>, <<LCall(LIdent(<<"a">>), <<>>)>>),
      \* _ = a()
      AssignStmt(<<Discard>>, <<LCall(LIdent(<<"a">>), <<>>)>>),
      \* New(b)
      ExprStmt(LCall(LIdent(New), <<LIdent(<<"b">>)>>)),
      \* a.Open()
      ExprStmt(LCall(SelectorExpr(LIdent(<<"a">>), Open), <<>>)),
      \* New.a()
      ExprStmt(LCall(SelectorExpr(LIdent(New), <<"a">>), <<>>)),
      \* a.b.Open()
      ExprStmt(LCall(SelectorExpr(SelectorExpr(LIdent(<<"a">>), <<"b">>), Open), <<>>)),
      \* a(b)
      ExprStmt(LCall(LIdent(<<"a">>), <<LIdent(<<"b">>)>>)),
      \* a()()
      ExprStmt(LCall(LCall(LIdent(<<"a">>), <<>>), <<>>)),
      \* m[b]
      ExprStmt(IndexExpr(LIdent(<<"m">>), LIdent(<<"b">>))) }

ErrFiles ==
    {[Name |-> LIdent(<<"m">>), Imports |-> <<>>, Body |-> b] :
        b \in SeqsUpTo(ErrStmts, MaxStmts)}

ErrInit ==
    /\ lfile \in ErrFiles
    /\ runs = <<>>
    /\ RefIdle
    /\ MainIdle
    /\ OthersIdle

ErrSpec == ErrInit /\ [][LintNext]_vars

---------------------------------------------------------------------------
(* custom_linter.go: main.                                                  *)
(*                                                                         *)
(* A directory entry is [path, sub, parses, tree]: the file's name, whether *)
(* it lies in a subdirectory, whether parser.ParseFile accepts it, and the  *)
(* tree it parses to.                                                       *)

DotGo == <<".", "g", "o">>

TestDotGo == <<"_", "t", "e", "s", "t">> \o DotGo

\* package m; x = a
CleanTree ==
    [Name |-> LIdent(<<"m">>), Imports |-> <<>>,
     Body |-> <<AssignStmt(<<LIdent(<<"x">>)>>, <<LIdent(<<"a">>)>>)>>]

\* package m; import "a"; New(b)
DirtyTree ==
    [Name |-> LIdent(<<"m">>), Imports |-> <<ImportSpec(NoName, <<"a">>)>>,
     Body |-> <<ExprStmt(LCall(LIdent(<<"N", "e", "w">>), <<LIdent(<<"b">>)>>))>>]

DirEntry(path, sub, parses, tree) ==
    [path |-> path, sub |-> sub, parses |-> parses, tree |-> tree]

DirEntries ==
    { DirEntry(<<"a">> \o DotGo, FALSE, FALSE, <<>>),        \* a.go, a syntax error
      DirEntry(<<"b">> \o DotGo, FALSE, TRUE, CleanTree),    \* b.go
      DirEntry(<<"c">> \o DotGo, FALSE, TRUE, DirtyTree),    \* c.go
      DirEntry(<<"c">> \o TestDotGo, FALSE, TRUE, DirtyTree), \* c_test.go
      DirEntry(<<"d">> \o DotGo, TRUE, TRUE, DirtyTree) }    \* sub/d.go

Dirs == SeqsUpTo(DirEntries, MaxFiles)

\* flag.Parse(): -dir and -recursive are given
LintMainInit ==
    /\ ldir \in Dirs
    /\ recursive \in BOOLEAN
    /\ lpc = "walk"
    /\ filesToLint = <<>>
    /\ lidx = 0
    /\ issueCount = 0
    /\ printed = <<>>
    /\ lexit = -1
    /\ walkFailed = FALSE
    /\ linted = {}
    /\ lintFailed = {}
    /\ RefIdle
    /\ LintIdle
    /\ MainIdle
    /\ GoGenIdle
    /\ ZigGenIdle
    /\ AnalysisIdle

\* walkFn: the file is appended to filesToLint
Collected(e) ==
    /\ (e.sub => recursive)
    /\ HasSuffix(e.path, DotGo)
    /\ ~HasSuffix(e.path, TestDotGo)

\* filepath.Walk(*dir, walkFn): the files found in the directory's order, or
\* an error and os.Exit(1)
LintWalk ==
    /\ lpc = "walk"
    /\ \/ /\ filesToLint' =
                SelectSeq([i \in 1..Len(ldir) |-> i], LAMBDA i : Collected(ldir[i]))
          /\ lidx' = 1
          /\ lpc' = "files"
          /\ UNCHANGED <<lexit, walkFailed>>
       \/ /\ walkFailed' = TRUE
          /\ lexit' = 1
          /\ lpc' = "exit"
          /\ UNCHANGED <<filesToLint, lidx>>
    /\ UNCHANGED <<ldir, recursive, issueCount, printed, linted, lintFailed>>
    /\ UNCHANGED <<rvars, lvars, mvars, gvars, avars>>

\* the lines main prints for the issues of file i
PrintedLines(i, issues) == [k \in 1..Len(issues) |-> [Filename |-> i, issue |-> issues[k]]]

\* one turn of the loop over filesToLint
LintOne ==
    /\ lpc = "files"
    /\ lidx <= Len(filesToLint)
    /\ LET i == filesToLint[lidx]
       IN /\ linted' = linted \cup {i}
          /\ IF ~ldir[i].parses
             THEN \* Error linting: continue
                  /\ lintFailed' = lintFailed \cup {i}
                  /\ UNCHANGED <<issueCount, printed>>
             ELSE \E res \in lintFile(ldir[i].tree) :
                     /\ printed' = printed \o PrintedLines(i, res.issues)
                     /\ issueCount' = issueCount + Len(res.issues)
                     /\ UNCHANGED lintFailed
    /\ lidx' = lidx + 1
    /\ UNCHANGED <<ldir, recursive, lpc, filesToLint, lexit, walkFailed>>
    /\ UNCHANGED <<rvars, lvars, mvars, gvars, avars>>

\* a bug: the exit code is also non-zero when a file failed to lint
LintReturnFailing ==
    /\ lpc = "files"
    /\ lidx > Len(filesToLint)
    /\ lexit' = IF issueCount > 0 \/ lintFailed # {} THEN 1 ELSE 0
    /\ lpc' = "exit"
    /\ UNCHANGED <<ldir, recursive, filesToLint, lidx, issueCount, printed, walkFailed,
                   linted, lintFailed>>
    /\ UNCHANGED <<rvars, lvars, mvars, gvars, avars>>

\* the summary, and if issueCount > 0 { os.Exit(1) }
LintReturn ==
    /\ lpc = "files"
    /\ lidx > Len(filesToLint)
    /\ lexit' = IF issueCount > 0 THEN 1 ELSE 0
    /\ lpc' = "exit"
    /\ UNCHANGED <<ldir, recursive, filesToLint, lidx, issueCount, printed, walkFailed,
                   linted, lintFailed>>
    /\ UNCHANGED <<rvars, lvars, mvars, gvars, avars>>

LintMainNext == LintWalk \/ LintOne \/ LintReturn

LintMainSpec == LintMainInit /\ [][LintMainNext]_vars

\* either driver, run on its directory
DriversInit == MainInit \/ LintMainInit

DriversNext == MainNext \/ LintMainNext

DriversSpec == DriversInit /\ [][DriversNext]_vars

---------------------------------------------------------------------------
(* code_generator.go.                                                       *)
(*                                                                         *)
(* The input file is [parses, Name, Decls]: whether parser.ParseFile        *)
(* accepts it, the package name and the declarations: struct types         *)
(* [Name, Fields] and methods [Name, Recv].  A field declaration is         *)
(* [Names, Type, Tag]: A, B int has two names, an embedded field none; Type *)
(* is the text FormatNode prints; Tag is the tag literal, backquotes        *)
(* included, or NoTag.  A receiver is [Star, Type]: (s S) or (s *S).        *)

\* the backquote character
Backquote == "backquote"

NoTag == <<"<nil>">>

FieldDecl(names, type, tag) == [Names |-> names, Type |-> type, Tag |-> tag]

StructType(name, fields) == [Name |-> name, Fields |-> fields]

MethodDecl(name, star, type) == [Name |-> name, Recv |-> [Star |-> star, Type |-> type]]

Json == <<"j", "s", "o", "n">>
Db == <<"d", "b">>

\* a key:"value" pair of a struct tag
TagPair(key, value) == [key |-> key, value |-> value]

\* the tags, as the pairs they are written from
TagPairs ==
    { << TagPair(Json, <<"n", ",", "o">>), TagPair(Db, <<"c">>) >>,   \* json:"n,o" db:"c"
      << TagPair(Json, <<"a", " ", "b">>) >>,                        \* json:"a b"
      << TagPair(Json, <<",", "o">>) >> }                            \* json:",o"

RECURSIVE JoinPairs(_)
JoinPairs(pairs) ==
    IF pairs = <<>> THEN <<>>
    ELSE Head(pairs).key \o <<":">> \o Quoted(Head(pairs).value)
         \o (IF Tail(pairs) = <<>> THEN <<>> ELSE <<" ">> \o JoinPairs(Tail(pairs)))

\* the raw string literal of a tag
TagLiteral(pairs) == <<Backquote>> \o JoinPairs(pairs) \o <<Backquote>>

\* the raw string literal  json:"n,o" db:"c"
JsonDbTag ==
    <<Backquote, "j", "s", "o", "n", ":", Q, "n", ",", "o", Q, " ",
      "d", "b", ":", Q, "c", Q, Backquote>>

GoFieldDecls ==
    { FieldDecl(<< <<"i", "d">> >>, "uint64", NoTag),                 \* id uint64
      FieldDecl(<< <<"n", "a", "m", "e">> >>, "string", NoTag),       \* name string
      FieldDecl(<< <<"a", "c", "t", "i", "v", "e">> >>, "bool", NoTag), \* active bool
      FieldDecl(<< <<"A">>, <<"B">> >>, "int", NoTag),                \* A, B int
      FieldDecl(<<>>, "T", NoTag),                                    \* T
      FieldDecl(<< <<"I", "d">> >>, "int", JsonDbTag) }               \* Id int, tagged
    \cup {FieldDecl(<< <<"B">> >>, "string", TagLiteral(pairs)) : pairs \in TagPairs}

UnparsableSource == [parses |-> FALSE, Name |-> <<>>, Decls |-> <<>>]

\* the declarations of the files with several structs and methods
BatchDecls ==
    { StructType(<<"S">>, <<FieldDecl(<< <<"i", "d">> >>, "uint64", NoTag)>>),  \* S { id uint64 }
      StructType(<<"U">>, <<FieldDecl(<< <<"x">> >>, "[][]int", NoTag)>>),     \* U { x [][]int }
      MethodDecl(<<"m">>, FALSE, <<"S">>),                                     \* func (s S) m()
      MethodDecl(<<"n">>, TRUE, <<"S">>) }                                     \* func (s *S) n()

\* no declaration twice in a file
BatchSources ==
    {[parses |-> TRUE, Name |-> <<"p">>, Decls |-> ds] :
        ds \in {q \in SeqsUpTo(BatchDecls, MaxDecls) :
                   \A i, j \in 1..Len(q) : q[i] = q[j] => i = j}}

GoSources ==
    {UnparsableSource} \cup
    {[parses |-> TRUE, Name |-> <<"p">>, Decls |-> <<StructType(<<"S">>, fs)>>] :
        fs \in SeqsUpTo(GoFieldDecls, MaxFields)}
    \cup BatchSources

\* strings.ToLower, over the letters of the field names
ToLower(str) ==
    [i \in 1..Len(str) |->
        CASE str[i] = "A" -> "a" [] str[i] = "B" -> "b" [] str[i] = "I" -> "i"
          [] str[i] = "S" -> "s" [] str[i] = "T" -> "t" [] str[i] = "D" -> "d"
          [] OTHER -> str[i]]

extractTagValue(tag, key) ==
    LET parts     == Split(Trim(tag, {Backquote}), " ")
        keyPrefix == key \o <<":">>
        hits      == {k \in 1..Len(parts) : HasPrefix(parts[k], keyPrefix)}
    IN IF hits = {} THEN <<>>
       ELSE LET part  == parts[CHOOSE k \in hits : \A j \in hits : k <= j]
                value == Trim(SubSeq(part, Len(keyPrefix) + 1, Len(part)), {Q})
            IN Split(value, ",")[1]

\* the FieldInfo appended for a field declaration that has names
FieldInfo(field) ==
    LET fieldName == field.Names[1]
        jsonTag   == IF field.Tag = NoTag THEN <<>>
                     ELSE extractTagValue(field.Tag, <<"j", "s", "o", "n">>)
        dbTag     == IF field.Tag = NoTag THEN <<>>
                     ELSE extractTagValue(field.Tag, <<"d", "b">>)
    IN [Name     |-> fieldName,
        Type     |-> field.Type,
        Tag      |-> IF field.Tag = NoTag THEN <<>> ELSE field.Tag,
        JSONName |-> IF jsonTag = <<>> THEN ToLower(fieldName) ELSE jsonTag,
        DBName   |-> IF dbTag = <<>> THEN ToLower(fieldName) ELSE dbTag]

\* the loop over structType.Fields.List
StructInfo(st) ==
    LET named == SelectSeq(st.Fields, LAMBDA fd : Len(fd.Names) # 0)
    IN [Name |-> st.Name, Fields |-> [k \in 1..Len(named) |-> FieldInfo(named[k])],
        Methods |-> <<>>]

\* FormatNode(fset, recv.Type)
ReceiverText(recv) == (IF recv.Star THEN <<"*">> ELSE <<>>) \o recv.Type

MethodInfo(d) == [Name |-> d.Name, Receiver |-> ReceiverText(d.Recv)]

\* the structs after the first n declarations of the file: a struct type is
\* appended, a method is appended to the Methods of every struct found so far
\* that has the receiver's type name
RECURSIVE ExtractDecls(_, _)
ExtractDecls(decls, n) ==
    IF n = 0 THEN <<>>
    ELSE LET ss == ExtractDecls(decls, n - 1)
             d  == decls[n]
         IN IF "Fields" \in DOMAIN d
            THEN Append(ss, StructInfo(d))
            ELSE [i \in 1..Len(ss) |->
                    IF ss[i].Name = d.Recv.Type
                    THEN [ss[i] EXCEPT !.Methods = Append(@, MethodInfo(d))]
                    ELSE ss[i]]

ExtractStructs(src) ==
    IF ~src.parses
    THEN [structs |-> <<>>, pkgName |-> <<>>, err |-> "failed to parse file"]
    ELSE [structs |-> ExtractDecls(src.Decls, Len(src.Decls)),
          pkgName |-> src.Name, err |-> "nil"]

\* the functions given to tmpl.Funcs
FuncMap == {"ToLower", "Title", "Add"}

\* the functions of text/template the template text calls
Builtins == {"and", "eq", "ne"}

\* the functions the template text calls
TemplateCalls == {"and", "eq", "ne", "ToLower", "GetSQLType"}

\* the value the template's outermost {{range .}} ranges over
RangedOver == "TemplateData"

\* what tmpl.Parse, tmpl.Execute, format.Source and os.WriteFile answer:
\* whether each succeeds
Outcomes == [parses : BOOLEAN, executes : BOOLEAN, formats : BOOLEAN, writes : BOOLEAN]

\* what they answer for the template text of GenerateCode: tmpl.Parse fails
\* on a function that is not defined, and tmpl.Execute fails on a range over
\* a struct value
TemplateOutcome ==
    [parses   |-> TemplateCalls \subseteq FuncMap \cup Builtins,
     executes |-> RangedOver \in {"slice", "array", "map", "chan"},
     formats  |-> TRUE,
     writes   |-> TRUE]

\* buf.String(): the text the template writes for the structs
Rendered(ss, pkgName, fl) ==
    [package |-> pkgName, structs |-> ss, flags |-> fl, gofmt |-> FALSE]

\* format.Source(buf.Bytes())
Formatted(text) == [text EXCEPT !.gofmt = TRUE]

\* GenerateCode, on format failure returning "" as on the other failures
GenerateCodeDiscarding(ss, pkgName, fl, env) ==
    IF ~env.parses
    THEN [code |-> <<>>, err |-> "failed to parse template"]
    ELSE IF ~env.executes
    THEN [code |-> <<>>, err |-> "failed to execute template"]
    ELSE IF ~env.formats
    THEN [code |-> <<>>, err |-> "failed to format code"]
    ELSE [code |-> <<Formatted(Rendered(ss, pkgName, fl))>>, err |-> "nil"]

\* GenerateCode: "" and the error when the template does not parse or
\* execute, the unformatted text and the error when the formatter fails
GenerateCode(ss, pkgName, fl, env) ==
    IF ~env.parses
    THEN [code |-> <<>>, err |-> "failed to parse template"]
    ELSE IF ~env.executes
    THEN [code |-> <<>>, err |-> "failed to execute template"]
    ELSE IF ~env.formats
    THEN [code |-> <<Rendered(ss, pkgName, fl)>>, err |-> "failed to format code"]
    ELSE [code |-> <<Formatted(Rendered(ss, pkgName, fl))>>, err |-> "nil"]

GoGenStart ==
    /\ gflags \in [input : BOOLEAN, sqlite : BOOLEAN, output : BOOLEAN]
    /\ gpc = "start"
    /\ structs = <<>>
    /\ gcode = <<>>
    /\ gerr = "nil"
    /\ gexit = -1
    /\ gout = <<>>
    /\ ZigGenIdle
    /\ RefIdle
    /\ LintIdle
    /\ MainIdle
    /\ DriverIdle
    /\ AnalysisIdle

\* code_generator.go as it is: its own template text
GoGenInit ==
    /\ gsrc \in GoSources
    /\ genv = TemplateOutcome
    /\ GoGenStart

\* code_generator.go from GenerateCode's template on, whatever the template
\* engine, the formatter and the file system answer
OutcomesInit ==
    /\ gsrc \in {UnparsableSource} \cup BatchSources
    /\ genv \in Outcomes
    /\ GoGenStart

GenUntouched ==
    UNCHANGED <<gflags, gsrc, genv, ztype, ztable, zbatch, zbuild, rvars, lvars, mvars, dvars,
                avars>>

\* if *inputFile == "" { ... os.Exit(1) }
GenCheckInput ==
    /\ gpc = "start"
    /\ IF ~gflags.input
       THEN gpc' = "exit" /\ gexit' = 1
       ELSE gpc' = "extract" /\ UNCHANGED gexit
    /\ UNCHANGED <<structs, gcode, gerr, gout>>
    /\ GenUntouched

\* structs, pkgName, err := ExtractStructs(*inputFile)
GenExtract ==
    /\ gpc = "extract"
    /\ LET res == ExtractStructs(gsrc)
       IN /\ structs' = res.structs
          /\ gerr' = res.err
          /\ IF res.err # "nil"
             THEN gpc' = "exit" /\ gexit' = 1
             ELSE gpc' = "generate" /\ UNCHANGED gexit
    /\ UNCHANGED <<gcode, gout>>
    /\ GenUntouched

\* code, err := GenerateCode(structs, pkgName), and the code written or printed
GenGenerate ==
    /\ gpc = "generate"
    /\ LET res == GenerateCode(structs, gsrc.Name, gflags, genv)
       IN /\ gcode' = res.code
          /\ gerr' = res.err
          /\ gpc' = "exit"
          /\ IF res.err # "nil"
             THEN gexit' = 1 /\ UNCHANGED gout
             ELSE IF gflags.output /\ ~genv.writes
             THEN gexit' = 1 /\ UNCHANGED gout
             ELSE gexit' = 0 /\ gout' = res.code
    /\ UNCHANGED structs
    /\ GenUntouched

---------------------------------------------------------------------------
(* code_generator.zig: generateTableDefinition.                             *)
(*                                                                         *)
(* A struct type is [name, fields], a field [name, type]; the table is      *)
(* [state, table, columns], or a compile error.                             *)

\* @typeInfo(field.type)
TypeInfo(t) ==
    CASE t = "u64"         -> [tag |-> "Int"]
      [] t = "f64"         -> [tag |-> "Float"]
      [] t = "bool"        -> [tag |-> "Bool"]
      [] t = "[]const u8"  -> [tag |-> "Pointer", size |-> "Slice", child |-> "u8"]
      [] t = "[]const u64" -> [tag |-> "Pointer", size |-> "Slice", child |-> "u64"]
      [] OTHER             -> [tag |-> "Optional"]

ZigField(name, type) == [name |-> name, type |-> type]

ZigFields ==
    { ZigField(<<"i", "d">>, "u64"),
      ZigField(<<"n", "a", "m", "e">>, "[]const u8"),
      ZigField(<<"a", "c", "t", "i", "v", "e">>, "bool"),
      ZigField(<<"i">>, "u64"),
      ZigField(<<"x">>, "f64"),
      ZigField(<<"t">>, "[]const u64"),
      ZigField(<<"o">>, "?u64") }

\* the struct types: no two fields of one name
ZigTypes ==
    {[name |-> <<"T">>, fields |-> fs] :
        fs \in {q \in SeqsUpTo(ZigFields, MaxFields) :
                   \A i, j \in 1..Len(q) : q[i].name = q[j].name => i = j}}

CompileError == "compile error"

\* the switch on @typeInfo(field.type): the SQL type written, or a compile
\* error.  field.name[1] of a name of one character is past its end: the
\* sentinel, or an index out of bounds, by the type the compiler gives names
SqlTypes(field) ==
    LET info == TypeInfo(field.type)
    IN CASE info.tag = "Int" ->
              IF field.name[1] = "i"
              THEN IF Len(field.name) >= 2
                   THEN {IF field.name[2] = "d" THEN "INTEGER PRIMARY KEY" ELSE "INTEGER"}
                   ELSE {"INTEGER", CompileError}
              ELSE {"INTEGER"}
         [] info.tag = "Float" -> {"REAL"}
         [] info.tag = "Bool"  -> {"BOOLEAN"}
         [] info.tag = "Pointer" ->
              IF info.size = "Slice" /\ info.child = "u8" THEN {"TEXT"} ELSE {CompileError}
         [] OTHER -> {CompileError}

\* what generateTableDefinition(T) may evaluate to
generateTableDefinition(T) ==
    LET n       == Len(T.fields)
        all     == UNION {SqlTypes(T.fields[k]) : k \in 1..n}
        choices == {c \in [1..n -> all] : \A k \in 1..n : c[k] \in SqlTypes(T.fields[k])}
    IN {IF \E k \in 1..n : c[k] = CompileError
        THEN [state |-> CompileError]
        ELSE [state |-> "ok", table |-> T.name,
              columns |-> [k \in 1..n |-> [name |-> T.fields[k].name, sql |-> c[k]]]] :
            c \in choices}

\* the programs that generate the tables of one to MaxDecls struct types of
\* one field
ZigBatches ==
    LET names == <<"A", "B", "C", "D">>
    IN {[k \in 1..Len(q) |-> [name |-> <<names[k]>>, fields |-> <<q[k]>>]] :
           q \in SeqsUpTo(ZigFields, MaxDecls) \ {<<>>}}

\* what the build of a program with comptime generateTableDefinition(T) for
\* each T of the batch may give: a compile error of any of them fails it
BuildOutcomes(batch) ==
    LET n       == Len(batch)
        all     == UNION {generateTableDefinition(batch[k]) : k \in 1..n}
        choices == {c \in [1..n -> all] :
                       \A k \in 1..n : c[k] \in generateTableDefinition(batch[k])}
    IN {IF \E k \in 1..n : c[k].state = CompileError
        THEN [state |-> CompileError]
        ELSE [state |-> "ok", tables |-> c] : c \in choices}

ZigGenInit ==
    /\ \/ ztype \in ZigTypes /\ zbatch = <<>>
       \/ ztype = <<>> /\ zbatch \in ZigBatches
    /\ ztable = NoTable
    /\ zbuild = NoTable
    /\ GoGenIdle
    /\ RefIdle
    /\ LintIdle
    /\ MainIdle
    /\ DriverIdle
    /\ AnalysisIdle

\* comptime generateTableDefinition(T)
ZigCompile ==
    /\ ztable = NoTable
    /\ ztype # <<>>
    /\ ztable' \in generateTableDefinition(ztype)
    /\ UNCHANGED <<ztype, zbatch, zbuild>>
    /\ UNCHANGED <<gflags, gsrc, gpc, structs, gcode, gerr, gexit, gout, genv>>
    /\ UNCHANGED <<rvars, lvars, mvars, dvars, avars>>

\* the build of the program of the batch
ZigBuild ==
    /\ zbuild = NoTable
    /\ zbatch # <<>>
    /\ zbuild' \in BuildOutcomes(zbatch)
    /\ UNCHANGED <<ztype, ztable, zbatch>>
    /\ UNCHANGED <<gflags, gsrc, gpc, structs, gcode, gerr, gexit, gout, genv>>
    /\ UNCHANGED <<rvars, lvars, mvars, dvars, avars>>

\* either code generator, run on its struct
GenInit == GoGenInit \/ ZigGenInit

GenNext == GenCheckInput \/ GenExtract \/ GenGenerate \/ ZigCompile \/ ZigBuild

GenSpec == GenInit /\ [][GenNext]_vars

OutcomesNext == GenCheckInput \/ GenExtract \/ GenGenerate

OutcomesSpec == OutcomesInit /\ [][OutcomesNext]_vars

---------------------------------------------------------------------------
(* analysis_tool.go: run, checkDebugPrint, astPath and findPath.            *)
(*                                                                         *)
(* The file of the pass is a tree of nodes [type, ...]; a node is named by  *)
(* its address, the child indices on the way from the file to it, which     *)
(* stands for the pointer the code compares (root == target).               *)

BlockStmt(list) == [type |-> "BlockStmt", List |-> list]
IfStmt(cond, body) == [type |-> "IfStmt", Cond |-> cond, Body |-> body]
DeferStmt(call) == [type |-> "DeferStmt", Call |-> call]
FuncLit(body) == [type |-> "FuncLit", Body |-> body]

\* func <name>() { body }
FuncDeclStmts(name, list) == [type |-> "FuncDecl", Name |-> LIdent(name), Body |-> BlockStmt(list)]

File(decls) == [type |-> "File", Decls |-> decls]

Fmt == <<"f", "m", "t">>
Log == <<"l", "o", "g">>
PrintName == <<"P", "r", "i", "n", "t">>
Printf == <<"P", "r", "i", "n", "t", "f">>
Println == <<"P", "r", "i", "n", "t", "l", "n">>
Debug == <<"d", "e", "b", "u", "g">>

\* the calls of the bodies
AnalysisCalls ==
    { LCall(SelectorExpr(LIdent(Fmt), Println), <<BasicLit>>),                      \* fmt.Println("")
      LCall(SelectorExpr(LIdent(Log), Printf), <<BasicLit>>),                       \* log.Printf("")
      LCall(SelectorExpr(LIdent(Fmt), <<"S", "p", "r", "i", "n", "t">>), <<>>),     \* fmt.Sprint()
      LCall(LIdent(<<"f">>), <<>>) }                                                \* f()

\* the statements a call of the bodies is found in
AnalysisStmts ==
    UNION {{ ExprStmt(c),                                                     \* c
             IfStmt(LIdent(<<"x">>), BlockStmt(<<ExprStmt(c)>>)),             \* if x { c }
             ExprStmt(LCall(LIdent(<<"f">>), <<c>>)),                         \* f(c)
             DeferStmt(c),                                                    \* defer c
             ExprStmt(LCall(FuncLit(BlockStmt(<<ExprStmt(c)>>)), <<>>)) } :   \* func() { c }()
           c \in AnalysisCalls}

\* the names of the functions: run, debug, DebugX
AnalysisFuncNames == {<<"r", "u", "n">>, Debug, <<"D", "e", "b", "u", "g", "X">>}

AnalysisFiles ==
    {File(<<FuncDeclStmts(n, list)>>) :
        n \in AnalysisFuncNames, list \in SeqsUpTo(AnalysisStmts, MaxStmts)}

\* the children of a node, in the order ast.Inspect and the inspector visit
\* them
Children(n) ==
    CASE n.type = "File"         -> n.Decls
      [] n.type = "FuncDecl"     -> <<n.Name, n.Body>>
      [] n.type = "BlockStmt"    -> n.List
      [] n.type = "IfStmt"       -> <<n.Cond, n.Body>>
      [] n.type = "ExprStmt"     -> <<n.X>>
      [] n.type = "DeferStmt"    -> <<n.Call>>
      [] n.type = "CallExpr"     -> <<n.Fun>> \o n.Args
      [] n.type = "SelectorExpr" -> <<n.X, n.Sel>>
      [] n.type = "FuncLit"      -> <<n.Body>>
      [] OTHER                   -> <<>>

\* the children findPath searches, as indices of Children, in its order
Searched(n) ==
    CASE n.type = "File"      -> [k \in 1..Len(n.Decls) |-> k]
      [] n.type = "FuncDecl"  -> <<2>>
      [] n.type = "BlockStmt" -> [k \in 1..Len(n.List) |-> k]
      [] n.type = "IfStmt"    -> <<1, 2>>
      [] n.type = "ExprStmt"  -> <<1>>
      [] n.type = "CallExpr"  -> [k \in 1..(1 + Len(n.Args)) |-> k]
      [] OTHER                -> <<>>

\* the addresses of the nodes of a tree
RECURSIVE Addrs(_)
Addrs(n) ==
    {<<>>} \cup UNION {{<<k>> \o a : a \in Addrs(Children(n)[k])} : k \in 1..Len(Children(n))}

RECURSIVE NodeAt(_, _)
NodeAt(n, a) == IF a = <<>> THEN n ELSE NodeAt(Children(n)[Head(a)], Tail(a))

\* strings.Contains(s, substr)
Contains(s, substr) ==
    \E i \in 1..(Len(s) + 1) :
        i + Len(substr) - 1 <= Len(s) /\ SubSeq(s, i, i + Len(substr) - 1) = substr

\* findPath(root, target, path), root at the address at: the nodes from the
\* file down to the target, or not found
RECURSIVE findPath(_, _, _, _)
findPath(root, at, target, path) ==
    IF at = target THEN [path |-> Append(path, root), found |-> TRUE]
    ELSE LET ks   == Searched(root)
             res  == [i \in 1..Len(ks) |->
                        findPath(Children(root)[ks[i]], Append(at, ks[i]), target,
                                 Append(path, root))]
             hits == {i \in 1..Len(ks) : res[i].found}
         IN IF hits = {} THEN [path |-> <<>>, found |-> FALSE]
            ELSE res[CHOOSE i \in hits : \A j \in hits : i <= j]

\* astPath(pass.Files, target), the pass having one file
astPath(f, target) == findPath(f, <<>>, target, <<>>)

debugFuncs == [pkg \in {Fmt, Log} |-> {PrintName, Printf, Println}]

\* checkDebugPrint(pass, call), the call at an address: what it reports
checkDebugPrint(f, at) ==
    LET call == NodeAt(f, at)
    IN IF call.Fun.type # "SelectorExpr" THEN {}
       ELSE IF call.Fun.X.type # "Ident" THEN {}
       ELSE LET pkgName  == call.Fun.X.Name
                funcName == call.Fun.Sel.Name
                path     == astPath(f, at).path
                inDebugFunc ==
                    \E i \in 1..Len(path) :
                        /\ path[i].type = "FuncDecl"
                        /\ Contains(ToLower(path[i].Name.Name), Debug)
            IN IF pkgName \in DOMAIN debugFuncs /\ funcName \in debugFuncs[pkgName]
               THEN IF ~inDebugFunc
                    THEN {[Pos |-> at, pkg |-> pkgName, func |-> funcName]}
                    ELSE {}
               ELSE {}

AnalysisInit ==
    /\ afile \in AnalysisFiles
    /\ apc = "run"
    /\ reports = {}
    /\ RefIdle
    /\ LintIdle
    /\ MainIdle
    /\ DriverIdle
    /\ GoGenIdle
    /\ ZigGenIdle

\* run: checkDebugPrint at every *ast.CallExpr of the file
AnalysisRun ==
    /\ apc = "run"
    /\ reports' = UNION {checkDebugPrint(afile, a) :
                            a \in {b \in Addrs(afile) : NodeAt(afile, b).type = "CallExpr"}}
    /\ apc' = "done"
    /\ UNCHANGED <<afile, rvars, lvars, mvars, dvars, gvars>>

AnalysisNext == AnalysisRun

AnalysisSpec == AnalysisInit /\ [][AnalysisNext]_vars

---------------------------------------------------------------------------
(* Properties of the linter *)

\* the names that occur in an expression as a plain identifier or as the base
\* X of a selector X.Sel (the Sel of a selector is not such an occurrence)
RECURSIVE ExprUses(_)
ExprUses(e) ==
    CASE e.type = "Ident"        -> {e.Name}
      [] e.type = "SelectorExpr" -> ExprUses(e.X)
      [] e.type = "CallExpr"     ->
            ExprUses(e.Fun) \cup UNION {ExprUses(e.Args[i]) : i \in 1..Len(e.Args)}
      [] OTHER -> {}

StmtUses(st) ==
    CASE st.type = "ExprStmt"   -> ExprUses(st.X)
      [] st.type = "AssignStmt" ->
            UNION {ExprUses(st.Lhs[i]) : i \in 1..Len(st.Lhs)}
            \cup UNION {ExprUses(st.Rhs[i]) : i \in 1..Len(st.Rhs)}

Uses(f) == UNION {StmtUses(f.Body[i]) : i \in 1..Len(f.Body)}

\* the names used only as the base of a selector
RECURSIVE ExprPlain(_)
ExprPlain(e) ==
    CASE e.type = "Ident"        -> {e.Name}
      [] e.type = "SelectorExpr" -> IF e.X.type = "Ident" THEN {} ELSE ExprPlain(e.X)
      [] e.type = "CallExpr"     ->
            ExprPlain(e.Fun) \cup UNION {ExprPlain(e.Args[i]) : i \in 1..Len(e.Args)}
      [] OTHER -> {}

StmtPlain(st) ==
    CASE st.type = "ExprStmt"   -> ExprPlain(st.X)
      [] st.type = "AssignStmt" ->
            UNION {ExprPlain(st.Lhs[i]) : i \in 1..Len(st.Lhs)}
            \cup UNION {ExprPlain(st.Rhs[i]) : i \in 1..Len(st.Rhs)}

PlainUses(f) == UNION {StmtPlain(f.Body[i]) : i \in 1..Len(f.Body)}

\* the imports that are neither blank nor dot
Tracked(f) == {i \in 1..Len(f.Imports) : f.Imports[i].Name \notin {<<"_">>, <<".">>}}

\* the local name of a tracked import: its alias, else the last element of
\* its path
LocalName(imp) ==
    IF imp.Name # NoName THEN imp.Name
    ELSE LET parts == Split(SubSeq(imp.Path.Value, 2, Len(imp.Path.Value) - 1), "/")
         IN parts[Len(parts)]

IssuesFor(issues, name) ==
    {k \in 1..Len(issues) : issues[k].Message = UnusedMessage(name)}

Referenced(f, name) == name \in BodyIdents(f) \cup {f.Name.Name}

\* C2: every tracked import, plain or aliased, whose local name is referenced
\* nowhere outside the import declaration has exactly one Issue, at the
\* import's position.
C2_EveryUnusedReported ==
    \A r \in 1..Len(runs) :
        \A i \in Tracked(lfile) :
            ~Referenced(lfile, LocalName(lfile.Imports[i]))
                => Cardinality({k \in 1..Len(runs[r].unused) :
                                  runs[r].unused[k].Pos = ImportPos(lfile, i)}) = 1

\* C3: linting the unmodified file again returns the same Issues in the same
\* order.
C3_Deterministic ==
    \A r1, r2 \in 1..Len(runs) : runs[r1].issues = runs[r2].issues

---------------------------------------------------------------------------
(* Properties of the refactorings *)

IsRename(r) == r.op \in {"RenameFunction", "RenameType", "RenameVariable"}

NamesOf(f) == [i \in 1..Len(IdentsOf(f)) |-> IdentsOf(f)[i].Name]

CallsOf(f) == SelectSeq(f, LAMBDA n : n.type = "CallExpr")

\* the classification of section 4.2, by the code's three predicates in the
\* order the section gives them
Classify(ident) ==
    IF isFunctionIdent(ident) THEN "Function"
    ELSE IF isTypeIdent(ident) THEN "Type"
    ELSE IF isVarIdent(ident) THEN "Variable"
    ELSE "Unknown"

TargetRole(r) ==
    CASE r.op = "RenameFunction" -> "Function"
      [] r.op = "RenameType"     -> "Type"
      [] r.op = "RenameVariable" -> "Variable"

\* the identifiers of f that the refactoring r matches
Matching(r, f) ==
    CASE r.op = "RenameFunction" ->
            {i \in 1..Len(IdentsOf(f)) : RenameFunctionMatch(r, IdentsOf(f)[i])}
      [] r.op = "RenameType" ->
            {i \in 1..Len(IdentsOf(f)) : RenameTypeMatch(r, IdentsOf(f)[i])}
      [] r.op = "RenameVariable" ->
            {i \in 1..Len(IdentsOf(f)) : RenameVariableMatch(r, IdentsOf(f)[i])}
      [] r.op = "AddParameter" ->
            {i \in 1..Len(f) : AddParameterMatch(r, f[i])}

\* C4: RenameVariable{x, y} leaves every identifier that denotes a type named
\* x, the type's declaration and its uses, as it was.
C4_TypeIdentsUntouched ==
    last.op = "RenameVariable" =>
        /\ Len(IdentsOf(file)) = Len(IdentsOf(prev))
        /\ \A i \in 1..Len(IdentsOf(prev)) :
              (IdentsOf(prev)[i].Obj.Kind = "Typ" /\ IdentsOf(prev)[i].Name = last.OldName)
                  => IdentsOf(file)[i] = IdentsOf(prev)[i]

RoundTripDone ==
    /\ last2.op = "RenameFunction"
    /\ last.op = "RenameFunction"
    /\ last2.OldName # last2.NewName

\* C5 as stated: RenameFunction{a, b} then RenameFunction{b, a}, a # b, gives
\* every identifier the name it had in the original tree.
C5_RoundTrip == RoundTripDone => NamesOf(file) = NamesOf(prev2)

\* the original tree has an identifier named n that resolves to a function
HasFunctionNamed(f, n) ==
    \E i \in 1..Len(IdentsOf(f)) :
        IdentsOf(f)[i].Name = n /\ IdentsOf(f)[i].Obj.Kind = "Fun"

\* C5 as amended: the round trip restores the original tree when the original
\* tree has no identifier named b that resolves to a function.
C5_RoundTripNoClash ==
    (RoundTripDone /\ ~HasFunctionNamed(prev2, last2.NewName)) => file = prev2

C5_Witness ==
    /\ RoundTripDone
    /\ ~HasFunctionNamed(prev2, last2.NewName)
    /\ HasFunctionNamed(prev2, last2.OldName)
    /\ \E i \in 1..Len(IdentsOf(prev2)) : IdentsOf(prev2)[i].Name = last2.NewName
    /\ prev # prev2
    /\ file = prev2

\* C6: a rename changes only identifiers that had the old name and the
\* refactoring's target role, and adds or removes no node.
C6_OnlyTargetRole ==
    IsRename(last) =>
        /\ Len(file) = Len(prev)
        /\ Len(IdentsOf(file)) = Len(IdentsOf(prev))
        /\ \A i \in 1..Len(IdentsOf(prev)) :
              IdentsOf(file)[i] # IdentsOf(prev)[i] =>
                  /\ IdentsOf(prev)[i].Name = last.OldName
                  /\ Classify(IdentsOf(prev)[i]) = TargetRole(last)

\* C7: AddParameter leaves every call expression, callee and arguments, as it
\* was.
C7_CallSitesUnchanged ==
    last.op = "AddParameter" => CallsOf(file) = CallsOf(prev)

C7_Witness ==
    /\ last.op = "AddParameter"
    /\ changed
    /\ file # prev
    /\ \E i \in 1..Len(prev) :
          prev[i].type = "CallExpr" /\ prev[i].Fun.Name = last.FunctionName

NewParamOf(r) == [Names |-> <<NewIdent(r.ParamName)>>, Type |-> NewIdent(r.ParamType)]

\* C8 as stated: AddParameter changes exactly one declaration.
C8_ExactlyOneDecl ==
    (last.op = "AddParameter" /\ Matching(last, prev) # {}) =>
        /\ Len(file) = Len(prev)
        /\ Cardinality({i \in 1..Len(prev) : file[i] # prev[i]}) = 1

\* C8 as amended: AddParameter appends the one new parameter to the parameter
\* list of every function or method declaration named f, after the parameters
\* it had, and changes nothing else.
C8_EveryDeclNamedF ==
    last.op = "AddParameter" =>
        /\ Len(file) = Len(prev)
        /\ \A i \in 1..Len(prev) :
              IF prev[i].type = "FuncDecl" /\ prev[i].Name.Name = last.FunctionName
              THEN file[i] = [prev[i] EXCEPT !.Params = prev[i].Params \o <<NewParamOf(last)>>]
              ELSE file[i] = prev[i]

C8_Witness ==
    /\ last.op = "AddParameter"
    /\ Cardinality(Matching(last, prev)) = 2
    /\ \E i \in Matching(last, prev) : Len(prev[i].Params) > 0
    /\ \A i \in Matching(last, prev) : Len(file[i].Params) = Len(prev[i].Params) + 1

\* C9: Apply returns no error; changed is false exactly when nothing in the
\* tree matches, and then the tree is as it was; changed is true only if the
\* tree was mutated.
C9_ChangedIffMutated ==
    last # NoOp =>
        /\ err = "nil"
        /\ ~changed <=> (Matching(last, prev) = {})
        /\ ~changed => file = prev
        /\ changed => file # prev

---------------------------------------------------------------------------
(* Properties of the refactoring driver *)

\* a supplied rename specification that does not split into 2 parts, or a
\* supplied add-param that does not split into 3
WrongArity(a) ==
    \/ \E v \in {a.renameFn, a.renameType, a.renameVar} :
          v # <<>> /\ Len(Split(v, ":")) # 2
    \/ a.addParam # <<>> /\ Len(Split(a.addParam, ":")) # 3

NothingTouched ==
    /\ parsed = {}
    /\ mutated = {}
    /\ written = {}
    /\ disk = disk0

\* C10: a run given a refactoring specification of the wrong arity parses no
\* file, mutates no tree and writes no file.
C10_ValidationFirst == WrongArity(argv) => NothingTouched

\* rejected at the last specification, the ones before it well-formed
C10_Witness ==
    /\ pc = "exit"
    /\ exitCode = 1
    /\ Len(refactorings) = 3
    /\ argv.write
    /\ argv.addParam # <<>>
    /\ Len(Split(argv.addParam, ":")) # 3
    /\ \E i \in 1..Len(disk) : disk[i].parses
    /\ NothingTouched

\* a rename specification with an empty part: "a:", ":b" or ":"
EmptyPart(v) == \E k \in 1..Len(Split(v, ":")) : Split(v, ":")[k] = <<>>

\* C11: a rename specification with an empty part is rejected: no Rename
\* refactoring is ever built with an empty old or new name, and no identifier
\* of a file on disk is ever renamed to the empty string.
C11_EmptyPartsRejected ==
    /\ \A k \in 1..Len(refactorings) :
          IsRename(refactorings[k]) =>
              refactorings[k].OldName # <<>> /\ refactorings[k].NewName # <<>>
    /\ \A i \in 1..Len(disk) : \A k \in 1..Len(NamesOf(disk[i].tree)) :
          NamesOf(disk[i].tree)[k] # <<>>
    /\ (pc = "files" => \A v \in {argv.renameFn, argv.renameType, argv.renameVar} :
                            ~EmptyPart(v))

\* C12: a file is written only when -write is set and some refactoring
\* returned changed = true for it (it parsed, and formatting and writing did
\* not fail); every other file on disk is what it was before the run.
C12_WriteGated ==
    \A i \in 1..Len(disk) :
        /\ i \in written =>
              /\ flags.write
              /\ disk0[i].parses
              /\ ApplyAll(refactorings, disk0[i].tree).changed
              /\ i \notin failed
        /\ i \notin written => disk[i] = disk0[i]

\* a run with -write that wrote one file and left alone another that parsed
C12_Witness ==
    /\ pc = "exit"
    /\ written # {}
    /\ \E i \in parsed \ written :
          disk0[i].parses /\ ~ApplyAll(refactorings, disk0[i].tree).changed

\* C14: a run of the refactoring driver that got as far as processing the
\* files exits non-zero if and only if some file failed to process (a parse,
\* format or write error); a run in which a file fails never exits zero.
C14_ExitNonZeroIffFailed ==
    (pc = "exit" /\ idx > 0) => (exitCode # 0 <=> failed # {})

\* C13: the lint driver exits non-zero if and only if at least one Issue was
\* reported over all the files; a run that reports no Issue exits zero, also
\* when files fail to parse or the directory walk fails.
C13_ExitNonZeroIffIssue ==
    lpc = "exit" => (lexit # 0 <=> issueCount > 0)

\* C13, amended: the lint driver exits non-zero if and only if at least one
\* Issue was reported or the directory walk failed; files that fail to parse
\* do not make the exit code non-zero.
C13_ExitNonZeroIffIssueOrWalk ==
    /\ issueCount = Len(printed)
    /\ lpc = "exit" => (lexit # 0 <=> (issueCount > 0 \/ walkFailed))

\* a run that exits zero with a file that failed to parse and one that was
\* linted clean
C13_Witness ==
    /\ lpc = "exit"
    /\ lexit = 0
    /\ lintFailed # {}
    /\ linted \ lintFailed # {}

\* the lines printed for file i
PrintedFor(i) == SelectSeq(printed, LAMBDA l : l.Filename = i)

\* C15: in both drivers a file that fails to parse is reported and skipped,
\* and every other file of the list is still processed, whatever its position:
\* the files before the loop's index have all been handled, the loop ends only
\* past the last file, an unparsable file is recorded as failed and left as it
\* was, and every file that parses gets its refactorings or its issues.
C15_ParseFailureIsolated ==
    /\ (pc = "files" \/ (pc = "exit" /\ idx > 0)) =>
          /\ parsed = {filesToProcess[k] : k \in 1..(idx - 1)}
          /\ pc = "exit" => parsed = Range(filesToProcess)
          /\ \A i \in parsed :
                IF disk0[i].parses
                THEN ApplyAll(refactorings, disk0[i].tree).changed /\ flags.write
                        => i \in written \cup failed
                ELSE i \in failed /\ disk[i] = disk0[i]
    /\ (lpc = "files" \/ (lpc = "exit" /\ ~walkFailed)) =>
          /\ linted = {filesToLint[k] : k \in 1..(lidx - 1)}
          /\ lpc = "exit" => linted = Range(filesToLint)
          /\ \A i \in linted :
                IF ldir[i].parses
                THEN \E res \in lintFile(ldir[i].tree) : PrintedFor(i) = PrintedLines(i, res.issues)
                ELSE i \in lintFailed /\ PrintedFor(i) = <<>>

\* the refactoring driver has met an unparsable file first and written the
\* changes of the file after it
C15_Witness ==
    /\ pc = "exit"
    /\ \E i \in failed : \E j \in written : i < j /\ ~disk0[i].parses

\* the issues of run r with message msg on the line of statement j
ErrorsAt(r, j, msg) ==
    SelectSeq(runs[r].errors,
              LAMBDA i : i.Message = msg /\ i.Pos.Line = StmtPos(lfile, j, 1).Line)

LastIsDiscard(st) ==
    st.Lhs[Len(st.Lhs)].type = "Ident" /\ st.Lhs[Len(st.Lhs)].Name = <<"_">>

CalleeName(call) ==
    CASE call.Fun.type = "Ident"        -> call.Fun.Name
      [] call.Fun.type = "SelectorExpr" -> call.Fun.Sel.Name
      [] OTHER -> <<>>

\* the "result is ignored" issues of run r on the line of statement j
ResultIssuesAt(r, j) ==
    SelectSeq(runs[r].errors,
              LAMBDA i : i.Message.format = ResultMessage(<<>>).format
                         /\ i.Pos = StmtPos(lfile, j, 1))

\* C17: ErrorReturnRule gives exactly one "result is ignored" warning, at the
\* call, for every expression statement that is a call whose callee function
\* name F starts with Create, New, Open, Read or Write, for F(...) as for
\* pkg.F(...) and obj.F(...), and none for any other expression statement.
C17_PrefixedCalleeWarned ==
    \A r \in 1..Len(runs) : \A j \in 1..Len(lfile.Body) :
        LET st == lfile.Body[j]
        IN st.type = "ExprStmt" =>
              Len(ResultIssuesAt(r, j)) =
                 IF st.X.type = "CallExpr"
                    /\ \E p \in ErrorPrefixes : HasPrefix(CalleeName(st.X), p)
                 THEN 1 ELSE 0

\* how often x occurs in the sequence s
Count(s, x) == Cardinality({i \in 1..Len(s) : s[i] = x})

SameBag(s, t) == \A x \in Range(s) \cup Range(t) : Count(s, x) = Count(t, x)

\* C18: whatever the order of the rule list, lintFile runs every rule of it
\* and returns the concatenation of the rules' Issues in the list's order, and
\* the multiset of Issues returned is the same for every order.
C18_RuleOrderInsensitive ==
    /\ \A r \in 1..Len(runs) :
          /\ Len(runs[r].results) = Len(runs[r].rules)
          /\ \A k \in 1..Len(runs[r].rules) :
                runs[r].results[k] \in RuleCheck(runs[r].rules[k], lfile)
          /\ runs[r].issues = Concat(runs[r].results)
    /\ \A r1, r2 \in 1..Len(runs) : SameBag(runs[r1].issues, runs[r2].issues)

\* the file linted with the rules in one order and in the other, both rules
\* finding something
C18_Witness ==
    /\ Len(runs) = 2
    /\ runs[1].rules # runs[2].rules
    /\ \A k \in 1..2 : runs[1].results[k] # <<>>
    /\ runs[1].issues # runs[2].issues

\* the names of the field declarations of a struct, in source order
DeclaredNames(st) == Concat([k \in 1..Len(st.Fields) |-> st.Fields[k].Names])

\* the struct type declarations of a file, in source order
StructDecls(src) == SelectSeq(src.Decls, LAMBDA d : "Fields" \in DOMAIN d)

\* C19: the Fields list ExtractStructs builds for a struct holds every named
\* field exactly once, in source order, each name of a declaration of several
\* names included; only embedded fields are left out.
C19_EveryNamedField ==
    gpc = "generate" =>
        \A k \in 1..Len(structs) :
            [i \in 1..Len(structs[k].Fields) |-> structs[k].Fields[i].Name]
                = DeclaredNames(StructDecls(gsrc)[k])

Id == <<"i", "d">>
NameName == <<"n", "a", "m", "e">>
Active == <<"a", "c", "t", "i", "v", "e">>

\* the CREATE TABLE statements of the generated code
Schemas(code) == SelectSeq(code, LAMBDA d : "columns" \in DOMAIN d)

\* the columns are id, name, active in this order and only id is a primary key
ReferenceColumns(columns) ==
    /\ [k \in 1..Len(columns) |-> columns[k].name] = <<Id, NameName, Active>>
    /\ \A k \in 1..Len(columns) :
          HasSuffix(columns[k].sql, <<"PRIMARY KEY">>) <=> columns[k].name = Id

\* code_generator.go given the shape {id uint64, name string, active bool}
\* with -sqlite
GoReference ==
    /\ gflags.input /\ gflags.sqlite
    /\ gsrc # <<>> /\ gsrc.parses
    /\ Len(StructDecls(gsrc)) = 1
    /\ [k \in 1..Len(StructDecls(gsrc)[1].Fields) |->
            <<StructDecls(gsrc)[1].Fields[k].Names, StructDecls(gsrc)[1].Fields[k].Type>>]
          = << <<<<Id>>, "uint64">>, <<<<NameName>>, "string">>, <<<<Active>>, "bool">> >>

GoReferenceGenerated ==
    (GoReference /\ gpc = "exit") =>
        /\ gerr = "nil"
        /\ gexit = 0
        /\ Len(Schemas(gout)) = 1
        /\ ReferenceColumns(Schemas(gout)[1].columns)

\* code_generator.zig given the shape {id: u64, name: []const u8, active: bool}
ZigReference ==
    /\ ztype # <<>>
    /\ ztype.fields = <<ZigField(Id, "u64"), ZigField(NameName, "[]const u8"),
                        ZigField(Active, "bool")>>

ZigSqlColumns(columns) ==
    [k \in 1..Len(columns) |->
        [name |-> columns[k].name,
         sql  |-> IF columns[k].sql = "INTEGER PRIMARY KEY"
                  THEN <<"INTEGER", "PRIMARY KEY">> ELSE <<columns[k].sql>>]]

ZigReferenceGenerated ==
    (ZigReference /\ ztable # NoTable) =>
        /\ ztable.state = "ok"
        /\ ReferenceColumns(ZigSqlColumns(ztable.columns))

\* C20: generating code for the shape {id uint64, name string, active bool}
\* with SQL generation enabled succeeds, and the CREATE TABLE statement has
\* exactly the columns id, name, active, in this order, with id and only id a
\* primary key: in code_generator.go as in code_generator.zig.
C20_ReferenceShapeTable == GoReferenceGenerated /\ ZigReferenceGenerated

\* the SQL type the table of section 4.5 gives a field of code_generator.zig,
\* or CompileError for an unsupported kind
TableSql(field) ==
    LET info == TypeInfo(field.type)
    IN CASE info.tag = "Int"   -> IF HasPrefix(field.name, Id)
                                  THEN "INTEGER PRIMARY KEY" ELSE "INTEGER"
         [] info.tag = "Float" -> "REAL"
         [] info.tag = "Bool"  -> "BOOLEAN"
         [] info.tag = "Pointer" /\ info.size = "Slice" /\ info.child = "u8" -> "TEXT"
         [] OTHER -> CompileError

ZigMappingTotal ==
    ztable # NoTable =>
        IF \E k \in 1..Len(ztype.fields) : TableSql(ztype.fields[k]) = CompileError
        THEN ztable.state = CompileError
        ELSE /\ ztable.state = "ok"
             /\ \A k \in 1..Len(ztype.fields) :
                    ztable.columns[k] = [name |-> ztype.fields[k].name,
                                         sql  |-> TableSql(ztype.fields[k])]

\* the same table for the field types of code_generator.go
GoTableSql(field) ==
    CASE field.Type \in {"uint64", "int"} ->
            IF HasPrefix(field.DBName, Id) THEN <<"INTEGER", "PRIMARY KEY">> ELSE <<"INTEGER">>
      [] field.Type = "bool"   -> <<"BOOLEAN">>
      [] field.Type = "string" -> <<"TEXT">>
      [] OTHER -> <<>>

GoMappingTotal ==
    (gpc = "exit" /\ gflags.input /\ gflags.sqlite /\ gsrc.parses) =>
        IF \E k \in 1..Len(structs) : \E i \in 1..Len(structs[k].Fields) :
              GoTableSql(structs[k].Fields[i]) = <<>>
        THEN gerr # "nil" /\ gout = <<>>
        ELSE /\ gerr = "nil"
             /\ Len(Schemas(gout)) = Len(structs)
             /\ \A k \in 1..Len(structs) : \A i \in 1..Len(structs[k].Fields) :
                    Schemas(gout)[k].columns[i].sql = GoTableSql(structs[k].Fields[i])

\* C21: the SQL type of a column is given by a fixed table: an integer field
\* is INTEGER, and INTEGER PRIMARY KEY exactly when its name begins with "id",
\* a floating field REAL, a boolean BOOLEAN, a string TEXT; a field of any
\* other kind is an unsupported-type error and never a column.  The table is
\* defined for every field name, those shorter than two characters included.
C21_SqlMappingTotal == ZigMappingTotal /\ GoMappingTotal

---------------------------------------------------------------------------
(* Generation errors and the other shapes of a batch *)

\* the shapes of the Go batch the generator has a column type for
GoSupported(st) == \A k \in 1..Len(st.Fields) : GoTableSql(st.Fields[k]) # <<>>

\* the Go batch: a shape with an unsupported field kind is reported and has
\* no code, and every other shape has its code in what is delivered
GoBatchIsolated ==
    (gpc = "exit" /\ gflags.input /\ gflags.sqlite /\ gsrc.parses) =>
        LET ds == structs
        IN (\E k \in 1..Len(ds) : ~GoSupported(ds[k])) =>
           /\ gerr # "nil"
           /\ \A k \in 1..Len(ds) :
                  GoSupported(ds[k]) <=>
                      \E i \in 1..Len(gout) :
                          \E j \in 1..Len(gout[i].structs) : gout[i].structs[j].Name = ds[k].Name

\* the shapes of the Zig batch that compile on their own
ZigSupported(T) == \A r \in generateTableDefinition(T) : r.state = "ok"

ZigUnsupported(T) == \A r \in generateTableDefinition(T) : r.state = CompileError

\* the Zig batch: every shape that compiles on its own has its table in
\* what the build gives, and no other shape has
ZigBatchIsolated ==
    (/\ zbuild # NoTable
     /\ \E k \in 1..Len(zbatch) : ZigUnsupported(zbatch[k])
     /\ \A k \in 1..Len(zbatch) : ZigSupported(zbatch[k]) \/ ZigUnsupported(zbatch[k])) =>
        \A k \in 1..Len(zbatch) :
            ZigSupported(zbatch[k]) <=>
                /\ zbuild.state = "ok"
                /\ \E i \in 1..Len(zbuild.tables) : zbuild.tables[i].table = zbatch[k].name

\* C22: when one shape of a batch has an unsupported field kind, an error is
\* reported for that shape and no code is emitted for it, and every other
\* shape of the batch still has its code generated
C22_ErrorsIsolatedPerShape == GoBatchIsolated /\ ZigBatchIsolated

---------------------------------------------------------------------------
(* GenerateCode and the formatter *)

\* C23: when the template executes and the formatter fails, GenerateCode
\* returns the whole unformatted text together with a non-nil error; when the
\* template does not parse or does not execute, it returns the empty string
\* with the error
C23_OutputKeptOnFormatFailure ==
    (gpc = "exit" /\ gflags.input /\ gsrc.parses) =>
        /\ (genv.parses /\ genv.executes /\ ~genv.formats) =>
               /\ gerr = "failed to format code"
               /\ gcode = <<Rendered(structs, gsrc.Name, gflags)>>
        /\ (~genv.parses \/ ~genv.executes) =>
               /\ gerr \in {"failed to parse template", "failed to execute template"}
               /\ gcode = <<>>

\* the formatter has failed on the text of a file with structs
C23_Witness ==
    /\ gpc = "exit"
    /\ gerr = "failed to format code"
    /\ structs # <<>>
    /\ gcode # <<>>
    /\ ~gcode[1].gofmt

---------------------------------------------------------------------------
(* A refactoring applied twice *)

\* C25: a rename of old to new, old # new, or an AddParameter, applied a
\* second time to the tree the first application gave, leaves that tree as it
\* is: nothing more is renamed and no further parameter is added
C25_ApplyIdempotent ==
    (/\ last2 # NoOp
     /\ last = last2
     /\ last.op # "AddParameter" => last.OldName # last.NewName) =>
        file = prev

---------------------------------------------------------------------------
(* Declarations of functions and methods under RenameFunction *)

\* the name slot of every function and method declaration is a Function
DeclNamesAreFunctions ==
    \A i \in 1..Len(file) : file[i].type = "FuncDecl" => isFunctionIdent(file[i].Name)

\* RenameFunction renames the declaration of every function or method named
\* old, and the callee of every call of old
DeclsAndCalleesRenamed ==
    (last.op = "RenameFunction" /\ last.OldName # last.NewName) =>
        \A i \in 1..Len(prev) :
            /\ (prev[i].type = "FuncDecl" /\ prev[i].Name.Name = last.OldName) =>
                   file[i].Name.Name = last.NewName
            /\ (prev[i].type = "CallExpr" /\ prev[i].Fun.Name = last.OldName) =>
                   file[i].Fun.Name = last.NewName

\* C26: isFunctionIdent classifies the name of every function declaration and
\* of every method declaration as Function, so that RenameFunction renames
\* the declaration of every function or method named old and every callee
C26_DeclarationNamesRenamed == DeclNamesAreFunctions /\ DeclsAndCalleesRenamed

---------------------------------------------------------------------------
(* Methods and the structs they belong to *)

\* the method declarations of a file
MethodDecls(src) == SelectSeq(src.Decls, LAMBDA d : "Recv" \in DOMAIN d)

\* how often the method of declaration d is among the Methods of a struct
Attached(st, d) ==
    Cardinality({i \in 1..Len(st.Methods) :
                    st.Methods[i] = [Name |-> d.Name, Receiver |-> ReceiverText(d.Recv)]})

\* ExtractStructs has returned the structs of a file
Extracted == gpc \in {"generate", "exit"} /\ gflags.input /\ gsrc.parses

\* C27: every method whose receiver, T or *T, names an extracted struct is
\* among the Methods of that struct exactly once, whether it is declared
\* after the struct or before it
C27_MethodsAttachedOnce ==
    Extracted =>
        \A k \in 1..Len(structs) : \A i \in 1..Len(MethodDecls(gsrc)) :
            MethodDecls(gsrc)[i].Recv.Type = structs[k].Name =>
                Attached(structs[k], MethodDecls(gsrc)[i]) = 1

---------------------------------------------------------------------------
(* The derived names of a field *)

\* the pairs a tag literal was written from
PairsOf(tag) ==
    IF tag = NoTag THEN <<>> ELSE CHOOSE pairs \in TagPairs : TagLiteral(pairs) = tag

\* the value of a key in a tag with the options after the first comma
\* removed, <<>> when the tag has no such key
TagName(pairs, key) ==
    LET with == SelectSeq(pairs, LAMBDA pr : pr.key = key)
    IN IF with = <<>> THEN <<>> ELSE Split(with[1].value, ",")[1]

\* the name the claim derives for a key from a field declaration
DerivedName(decl, key) ==
    IF TagName(PairsOf(decl.Tag), key) # <<>>
    THEN TagName(PairsOf(decl.Tag), key)
    ELSE ToLower(decl.Names[1])

\* the field declarations of a struct that ExtractStructs keeps
NamedFields(st) == SelectSeq(st.Fields, LAMBDA f : f.Names # <<>>)

\* C28: the JSONName and the DBName of every extracted field are the value of
\* the json and of the db key of its tag, without the options after the first
\* comma, when the tag has the key with a non-empty value, and the lower-cased
\* field name otherwise; they are never empty
C28_DerivedNames ==
    Extracted =>
        \A k \in 1..Len(structs) : \A i \in 1..Len(structs[k].Fields) :
            LET decl  == NamedFields(StructDecls(gsrc)[k])[i]
                field == structs[k].Fields[i]
            IN /\ field.JSONName = DerivedName(decl, Json)
               /\ field.DBName = DerivedName(decl, Db)
               /\ field.JSONName # <<>>
               /\ field.DBName # <<>>

---------------------------------------------------------------------------
(* The three classifiers on one identifier *)

\* the classifiers that accept an identifier
Classes(ident) ==
    (IF isFunctionIdent(ident) THEN {"Function"} ELSE {})
    \cup (IF isTypeIdent(ident) THEN {"Type"} ELSE {})
    \cup (IF isVarIdent(ident) THEN {"Variable"} ELSE {})

\* C29: at most one of isFunctionIdent, isTypeIdent and isVarIdent accepts an
\* identifier, whatever the kind of its object and the node that declares it
C29_ClassificationExclusive ==
    \A i \in 1..Len(IdentsOf(file)) : Cardinality(Classes(IdentsOf(file)[i])) <= 1

---------------------------------------------------------------------------
(* Debug prints and the functions around them *)

\* the calls of fmt and log Print, Printf and Println of the file
DebugPrints ==
    {a \in Addrs(afile) :
        LET n == NodeAt(afile, a)
        IN /\ n.type = "CallExpr"
           /\ n.Fun.type = "SelectorExpr"
           /\ n.Fun.X.type = "Ident"
           /\ n.Fun.X.Name \in {Fmt, Log}
           /\ n.Fun.Sel.Name \in {PrintName, Printf, Println}}

\* the node at an address is inside the declaration of a function with debug
\* in its name, whatever the case of the letters
InDebugFunction(a) ==
    \E k \in 0..Len(a) :
        LET n == NodeAt(afile, SubSeq(a, 1, k))
        IN n.type = "FuncDecl" /\ Contains(ToLower(n.Name.Name), Debug)

Reported(a) == \E r \in reports : r.Pos = a

\* every debug print outside the functions with debug in the name is reported
OutsideReported ==
    apc = "done" => \A a \in DebugPrints : ~InDebugFunction(a) => Reported(a)

\* C30: checkDebugPrint never reports a call of fmt or log Print, Printf or
\* Println that is inside a function with debug in its name, however deep the
\* call is nested in it, and reports every such call that is not inside such
\* a function
C30_DebugPrintsInDebugFunctions ==
    apc = "done" => \A a \in DebugPrints : Reported(a) <=> ~InDebugFunction(a)
====
